------------------------------ MODULE StreamProofs ------------------------------
(***************************************************************************)
(* The safety of a video stream, for every number of frames, window, queue *)
(* and run, and whatever goes wrong: StreamIInv of VideoStream.tla is      *)
(* inductive, and the invariants that the model checker runs on two short  *)
(* acquisitions follow from it.                                            *)
(***************************************************************************)
EXTENDS VideoStream, SequenceTheorems, FiniteSetTheorems, TLAPS

-------------------------------------------------------------------------------
(* Sequences and their elements.                                           *)

LEMMA ElementsOf ==
  ASSUME NEW S, NEW s \in Seq(S)
  PROVE  /\ Elements(s) \subseteq S
         /\ \A e : e \in Elements(s) <=> \E i \in 1 .. Len(s) : e = s[i]
         /\ s = <<>> <=> Elements(s) = {}
         /\ s = <<>> <=> Len(s) = 0
         /\ \A i \in 1 .. Len(s) : s[i] \in Elements(s)
<1>1. DOMAIN s = 1 .. Len(s) /\ Len(s) \in Nat
  BY LenProperties
<1>2. s = <<>> <=> Len(s) = 0
  BY EmptySeq
<1>. QED
  BY <1>1, <1>2, ElementOfSeq DEF Elements

LEMMA EmptyElements == Elements(<<>>) = {}
  BY DEF Elements

LEMMA AppendElements ==
  ASSUME NEW S, NEW s \in Seq(S), NEW e \in S
  PROVE  /\ Append(s, e) \in Seq(S)
         /\ Len(Append(s, e)) = Len(s) + 1
         /\ DOMAIN Append(s, e) = 1 .. Len(s) + 1
         /\ \A i \in 1 .. Len(s) : Append(s, e)[i] = s[i]
         /\ Append(s, e)[Len(s) + 1] = e
         /\ Elements(Append(s, e)) = Elements(s) \cup {e}
<1>1. Len(s) \in Nat
  BY LenProperties
<1>2. /\ Append(s, e) \in Seq(S) /\ Len(Append(s, e)) = Len(s) + 1
      /\ \A i \in 1 .. Len(s) : Append(s, e)[i] = s[i]
      /\ Append(s, e)[Len(s) + 1] = e
  BY AppendProperties
<1>3. DOMAIN Append(s, e) = 1 .. Len(s) + 1
  BY <1>2, LenProperties
<1>4. \A f : f \in Elements(Append(s, e)) <=> f \in Elements(s) \cup {e}
  <2>1. \A f : f \in Elements(Append(s, e)) <=> \E i \in 1 .. Len(s) + 1 : f = Append(s, e)[i]
    BY <1>3 DEF Elements
  <2>2. \A f : f \in Elements(s) <=> \E i \in 1 .. Len(s) : f = s[i]
    BY ElementsOf
  <2>3. 1 .. Len(s) + 1 = (1 .. Len(s)) \cup {Len(s) + 1}
    BY <1>1
  <2>. QED
    BY <2>1, <2>2, <2>3, <1>2
<1>. QED
  BY <1>2, <1>3, <1>4

\* What is behind the first n, and the first n themselves.
LEMMA RestElements ==
  ASSUME NEW S, NEW s \in Seq(S), NEW n \in 0 .. Len(s)
  PROVE  LET t == SubSeq(s, n + 1, Len(s))
         IN  /\ t \in Seq(S) /\ Len(t) = Len(s) - n /\ DOMAIN t = 1 .. Len(s) - n
             /\ \A i \in 1 .. Len(s) - n : t[i] = s[n + i]
             /\ Elements(t) \subseteq Elements(s)
<1> DEFINE t == SubSeq(s, n + 1, Len(s))
<1>1. Len(s) \in Nat /\ n \in Nat
  BY LenProperties
<1>2. \A i \in n + 1 .. Len(s) : s[i] \in S
  BY <1>1, ElementOfSeq
<1>3. /\ t \in Seq(S)
      /\ Len(t) = IF n + 1 <= Len(s) THEN Len(s) - (n + 1) + 1 ELSE 0
      /\ \A i \in 1 .. Len(s) - (n + 1) + 1 : t[i] = s[n + 1 + i - 1]
  BY <1>1, <1>2, SubSeqProperties
<1>4. Len(t) = Len(s) - n /\ \A i \in 1 .. Len(s) - n : t[i] = s[n + i]
  <2>. HIDE DEF t
  <2>. QED
    BY <1>1, <1>3
<1>5. DOMAIN t = 1 .. Len(s) - n
  BY <1>3, <1>4, LenProperties
<1>6. Elements(t) \subseteq Elements(s)
  <2>. HIDE DEF t
  <2>. QED
    BY <1>1, <1>3, <1>4, ElementsOf
<1>. QED
  BY <1>3, <1>4, <1>5, <1>6

LEMMA FirstElements ==
  ASSUME NEW S, NEW s \in Seq(S), NEW n \in 0 .. Len(s)
  PROVE  LET t == SubSeq(s, 1, n)
         IN  /\ t \in Seq(S) /\ Len(t) = n /\ DOMAIN t = 1 .. n
             /\ \A i \in 1 .. n : t[i] = s[i]
             /\ Elements(t) \subseteq Elements(s)
             /\ Elements(s) = Elements(t) \cup Elements(SubSeq(s, n + 1, Len(s)))
<1> DEFINE t == SubSeq(s, 1, n)
           u == SubSeq(s, n + 1, Len(s))
<1>1. Len(s) \in Nat /\ n \in Nat
  BY LenProperties
<1>2. \A i \in 1 .. n : s[i] \in S
  BY <1>1, ElementOfSeq
<1>3. /\ t \in Seq(S)
      /\ Len(t) = IF 1 <= n THEN n - 1 + 1 ELSE 0
      /\ \A i \in 1 .. n - 1 + 1 : t[i] = s[1 + i - 1]
  BY <1>1, <1>2, SubSeqProperties
<1>4. Len(t) = n /\ \A i \in 1 .. n : t[i] = s[i]
  <2>. HIDE DEF t
  <2>. QED
    BY <1>1, <1>3
<1>5. DOMAIN t = 1 .. n
  BY <1>3, <1>4, LenProperties
<1>6. /\ u \in Seq(S) /\ Len(u) = Len(s) - n
      /\ \A i \in 1 .. Len(s) - n : u[i] = s[n + i]
      /\ Elements(u) \subseteq Elements(s)
  BY RestElements
<1>7. Elements(t) \subseteq Elements(s)
  <2>. HIDE DEF t
  <2>. QED
    BY <1>1, <1>3, <1>4, ElementsOf
<1>8. Elements(s) \subseteq Elements(t) \cup Elements(u)
  <2> SUFFICES ASSUME NEW i \in 1 .. Len(s)
               PROVE  s[i] \in Elements(t) \cup Elements(u)
    BY ElementsOf
  <2>1. CASE i <= n
    <3>1. i \in 1 .. n
      BY <2>1, <1>1
    <3>. HIDE DEF t, u
    <3>. QED
      BY <3>1, <1>3, <1>4, ElementsOf
  <2>2. CASE i > n
    <3>1. i - n \in 1 .. Len(s) - n /\ n + (i - n) = i
      BY <2>2, <1>1
    <3>. HIDE DEF t, u
    <3>2. u[i - n] \in Elements(u)
      BY <3>1, <1>6, ElementsOf
    <3>3. u[i - n] = s[n + (i - n)]
      BY <3>1, <1>6
    <3>. QED
      BY <3>1, <3>2, <3>3
  <2>. QED
    BY <2>1, <2>2, <1>1
<1>. QED
  BY <1>3, <1>4, <1>5, <1>6, <1>7, <1>8

LEMMA ConcatElements ==
  ASSUME NEW S, NEW s \in Seq(S), NEW t \in Seq(S)
  PROVE  /\ s \o t \in Seq(S) /\ Len(s \o t) = Len(s) + Len(t)
         /\ DOMAIN (s \o t) = 1 .. Len(s) + Len(t)
         /\ \A i \in 1 .. Len(s) : (s \o t)[i] = s[i]
         /\ \A i \in 1 .. Len(t) : (s \o t)[Len(s) + i] = t[i]
         /\ Elements(s \o t) = Elements(s) \cup Elements(t)
<1> DEFINE u == s \o t
<1>1. Len(s) \in Nat /\ Len(t) \in Nat
  BY LenProperties
<1>2. /\ u \in Seq(S) /\ Len(u) = Len(s) + Len(t)
      /\ \A i \in 1 .. Len(s) + Len(t) : u[i] = IF i <= Len(s) THEN s[i] ELSE t[i - Len(s)]
  BY ConcatProperties
<1>3. DOMAIN u = 1 .. Len(s) + Len(t)
  BY <1>2, LenProperties
<1>. HIDE DEF u
<1>4. /\ \A i \in 1 .. Len(s) : u[i] = s[i]
      /\ \A i \in 1 .. Len(t) : u[Len(s) + i] = t[i]
  <2>1. ASSUME NEW i \in 1 .. Len(t)
        PROVE  u[Len(s) + i] = t[i]
    <3>1. /\ Len(s) + i \in 1 .. Len(s) + Len(t) /\ ~(Len(s) + i <= Len(s))
          /\ Len(s) + i - Len(s) = i
      BY <1>1
    <3>. QED
      BY <3>1, <1>2
  <2>. QED
    BY <2>1, <1>1, <1>2
<1>5. Elements(s) \cup Elements(t) \subseteq Elements(u)
  <2>1. \A i \in 1 .. Len(u) : u[i] \in Elements(u)
    BY <1>2, ElementsOf
  <2>2. \A i \in 1 .. Len(s) : s[i] \in Elements(u)
    BY <2>1, <1>1, <1>2, <1>4
  <2>3. \A i \in 1 .. Len(t) : t[i] \in Elements(u)
    <3>1. \A i \in 1 .. Len(t) : Len(s) + i \in 1 .. Len(u)
      BY <1>1, <1>2
    <3>. QED
      BY <2>1, <3>1, <1>4
  <2>4. \A e \in Elements(s) : e \in Elements(u)
    BY <2>2, ElementsOf
  <2>5. \A e \in Elements(t) : e \in Elements(u)
    BY <2>3, ElementsOf
  <2>. QED
    BY <2>4, <2>5
<1>6. Elements(u) \subseteq Elements(s) \cup Elements(t)
  <2> SUFFICES ASSUME NEW i \in 1 .. Len(u)
               PROVE  u[i] \in Elements(s) \cup Elements(t)
    BY <1>2, ElementsOf
  <2>1. CASE i <= Len(s)
    <3>1. i \in 1 .. Len(s) /\ u[i] = s[i]
      BY <2>1, <1>1, <1>2
    <3>. QED
      BY <3>1, ElementsOf
  <2>2. CASE i > Len(s)
    <3>1. i - Len(s) \in 1 .. Len(t) /\ u[i] = t[i - Len(s)]
      BY <2>2, <1>1, <1>2
    <3>. QED
      BY <3>1, ElementsOf
  <2>. QED
    BY <2>1, <2>2, <1>1
<1>. QED
  BY <1>2, <1>3, <1>4, <1>5, <1>6 DEF u

-------------------------------------------------------------------------------
(* What the operations on a queue do.                                      *)

LEMMA QueueTypes ==
  ASSUME TypeOK, NEW q \in Queues
  PROVE  /\ queue[q] \in Seq(Frames) /\ Len(queue[q]) \in Nat
         /\ Elements(queue[q]) \subseteq Frames /\ DOMAIN queue = Queues
<1>1. queue \in [Queues -> Seq(Frames)]
  BY DEF TypeOK
<1>2. queue[q] \in Seq(Frames) /\ DOMAIN queue = Queues
  BY <1>1
<1>. QED
  BY <1>2, LenProperties, ElementsOf

LEMMA EmptyFrames == <<>> \in Seq(Frames) /\ Len(<<>>) = 0
  BY EmptySeq

Writers == {"source", "filter"}

LEMMA TwoWriters == "source" \in Writers /\ "filter" \in Writers
  BY DEF Writers

LEMMA HoldingIs == \A q : Holding(q) \in SUBSET Writers
  BY DEF Holding, Writers

LEMMA SkipIs ==
  ASSUME TypeOK, NEW q \in Queues, Skip(q)
  PROVE  /\ queue' \in [Queues -> Seq(Frames)] /\ skipped' \in SUBSET Frames
         /\ queue'[q] = <<>> /\ Len(queue'[q]) = 0
         /\ \A p \in Queues : p # q => queue'[p] = queue[p]
         /\ skipped' = skipped \cup Elements(queue[q])
<1>1. queue \in [Queues -> Seq(Frames)] /\ skipped \subseteq Frames
  BY DEF TypeOK
<1>2. Elements(queue[q]) \subseteq Frames
  BY QueueTypes
<1>. QED
  BY <1>1, <1>2, EmptyFrames DEF Skip

LEMMA MapRegionIs ==
  ASSUME TypeOK, NEW w \in Writers, NEW q \in Queues, MapRegion(w, q)
  PROVE  /\ queue' \in [Queues -> Seq(Frames)] /\ skipped' \in SUBSET Frames
         /\ mapped' \in [Queues -> SUBSET Writers]
         /\ mapped' = [mapped EXCEPT ![q] = {w} \cup Holding(q)]
         /\ queue'[q] \in {queue[q], <<>>} /\ Len(queue'[q]) < QueueFrames
         /\ \A p \in Queues : p # q => queue'[p] = queue[p]
         /\ skipped \cup Elements(queue[q]) = skipped' \cup Elements(queue'[q])
         /\ skipped \subseteq skipped'
         /\ q \in readers => queue' = queue
<1>1. queue \in [Queues -> Seq(Frames)] /\ skipped \subseteq Frames
  BY DEF TypeOK
<1>2. mapped' = [mapped EXCEPT ![q] = {w} \cup Holding(q)]
  BY DEF MapRegion
<1>3. mapped' \in [Queues -> SUBSET Writers]
  <2>1. mapped \in [Queues -> SUBSET Writers] /\ {w} \cup Holding(q) \in SUBSET Writers
    BY HoldingIs DEF TypeOK, Writers
  <2>. QED
    BY <1>2, <2>1
<1>4. CASE UNCHANGED <<queue, skipped>> /\ Len(queue[q]) < QueueFrames
  BY <1>1, <1>2, <1>3, <1>4
<1>5. CASE Skip(q) /\ q \notin readers
  <2>1. 0 < QueueFrames
    BY QueueAssumption
  <2>. QED
    BY <1>1, <1>2, <1>3, <1>5, <2>1, SkipIs, EmptyElements
<1>. QED
  BY <1>4, <1>5 DEF MapRegion

\* f is appended to q, unless it is closed.
Puts(q, f) ==
  queue' = IF Accepts(q) THEN [queue EXCEPT ![q] = Append(queue[q], f)] ELSE queue

LEMMA PutsIs ==
  ASSUME TypeOK, NEW q \in Queues, NEW f \in Frames, Puts(q, f)
  PROVE  /\ queue' \in [Queues -> Seq(Frames)]
         /\ \A p \in Queues : p # q => queue'[p] = queue[p]
         /\ queue'[q] = IF Accepts(q) THEN Append(queue[q], f) ELSE queue[q]
         /\ Len(queue'[q]) = Len(queue[q]) + (IF Accepts(q) THEN 1 ELSE 0)
         /\ Elements(queue'[q])
              = Elements(queue[q]) \cup (IF Accepts(q) THEN {f} ELSE {})
<1>1. queue \in [Queues -> Seq(Frames)]
  BY DEF TypeOK
<1>2. queue[q] \in Seq(Frames) /\ Len(queue[q]) \in Nat
  BY QueueTypes
<1>3. /\ Append(queue[q], f) \in Seq(Frames)
      /\ Len(Append(queue[q], f)) = Len(queue[q]) + 1
      /\ Elements(Append(queue[q], f)) = Elements(queue[q]) \cup {f}
  BY <1>2, AppendElements
<1>4. CASE Accepts(q)
  <2>1. queue' = [queue EXCEPT ![q] = Append(queue[q], f)]
    BY <1>4 DEF Puts
  <2>. QED
    BY <1>1, <1>3, <1>4, <2>1
<1>5. CASE ~Accepts(q)
  BY <1>1, <1>2, <1>5 DEF Puts
<1>. QED
  BY <1>4, <1>5

\* What a commit appends, if anything: the frame of a writer that is alone.
LEMMA CommitIs ==
  ASSUME TypeOK, NEW w \in Writers, NEW q \in Queues, NEW f \in Frames, Commit(w, q, f)
  PROVE  /\ \/ UNCHANGED <<queue, mapped>> /\ (Accepts(q) => mapped[q] = {})
            \/ /\ Accepts(q) /\ mapped[q] # {} /\ mapped' = [mapped EXCEPT ![q] = {}]
               /\ \E g \in {f, Torn} : Puts(q, g)
         /\ mapped[q] = {w} => Puts(q, f)
<1>1. CASE Accepts(q) /\ mapped[q] # {}
  <2>1. /\ queue' = [queue EXCEPT ![q] = Append(queue[q], IF mapped[q] = {w} THEN f ELSE Torn)]
        /\ mapped' = [mapped EXCEPT ![q] = {}]
    BY <1>1 DEF Commit
  <2>2. mapped[q] = {w} => Puts(q, f)
    BY <1>1, <2>1 DEF Puts
  <2>3. mapped[q] # {w} => Puts(q, Torn)
    BY <1>1, <2>1 DEF Puts
  <2>. QED
    BY <1>1, <2>1, <2>2, <2>3
<1>2. CASE ~(Accepts(q) /\ mapped[q] # {})
  <2>1. UNCHANGED <<queue, mapped>>
    BY <1>2 DEF Commit
  <2>2. mapped[q] = {w} => ~Accepts(q)
    BY <1>2
  <2>. QED
    BY <1>2, <2>1, <2>2 DEF Puts
<1>. QED
  BY <1>1, <1>2

\* Whoever has a region, a commit adds a frame of one of the two at most.
LEMMA CommitAdds ==
  ASSUME TypeOK, NEW w \in Writers, NEW q \in Queues, NEW f \in Frames, Commit(w, q, f)
  PROVE  /\ queue' \in [Queues -> Seq(Frames)]
         /\ \A p \in Queues : p # q => queue'[p] = queue[p] /\ mapped'[p] = mapped[p]
         /\ mapped' \in [Queues -> SUBSET Writers] /\ mapped'[q] \in {{}, mapped[q]}
         /\ Elements(queue'[q]) \subseteq Elements(queue[q]) \cup {f, Torn}
         /\ \/ Len(queue'[q]) = Len(queue[q]) /\ mapped'[q] = mapped[q]
            \/ Len(queue'[q]) = Len(queue[q]) + 1 /\ mapped[q] # {} /\ mapped'[q] = {}
<1>1. queue \in [Queues -> Seq(Frames)] /\ mapped \in [Queues -> SUBSET Writers]
  BY DEF TypeOK, Writers
<1>2. CASE UNCHANGED <<queue, mapped>>
  BY <1>1, <1>2
<1>3. CASE /\ Accepts(q) /\ mapped[q] # {} /\ mapped' = [mapped EXCEPT ![q] = {}]
           /\ \E g \in {f, Torn} : Puts(q, g)
  <2>1. PICK g \in {f, Torn} : Puts(q, g)
    BY <1>3
  <2>2. g \in Frames
    BY DEF Torn, Frames
  <2>3. /\ queue' \in [Queues -> Seq(Frames)]
        /\ \A p \in Queues : p # q => queue'[p] = queue[p]
        /\ Len(queue'[q]) = Len(queue[q]) + 1
        /\ Elements(queue'[q]) = Elements(queue[q]) \cup {g}
    BY <1>3, <2>1, <2>2, PutsIs
  <2>4. /\ mapped' \in [Queues -> SUBSET Writers] /\ mapped'[q] = {}
        /\ \A p \in Queues : p # q => mapped'[p] = mapped[p]
    BY <1>1, <1>3
  <2>. QED
    BY <1>3, <2>3, <2>4
<1>. QED
  BY <1>2, <1>3, CommitIs

LEMMA AbortIs ==
  ASSUME TypeOK, NEW q \in Queues, AbortWrite(q)
  PROVE  /\ mapped' \in [Queues -> SUBSET Writers]
         /\ \A p \in Queues : p # q => mapped'[p] = mapped[p]
         /\ mapped'[q] \in {{}, mapped[q]} /\ (Accepts(q) => mapped'[q] = {})
<1>1. mapped \in [Queues -> SUBSET Writers]
  BY DEF TypeOK, Writers
<1>. QED
  BY <1>1 DEF AbortWrite

LEMMA TornIs == Torn \in Frames
  BY DEF Torn, Frames

LEMMA ConsumeIs ==
  ASSUME TypeOK, NEW q \in Queues, NEW n \in 0 .. Len(queue[q]), Consume(q, n)
  PROVE  /\ queue' \in [Queues -> Seq(Frames)]
         /\ \A p \in Queues : p # q => queue'[p] = queue[p]
         /\ queue'[q] = SubSeq(queue[q], n + 1, Len(queue[q]))
         /\ Len(queue'[q]) = Len(queue[q]) - n
         /\ \A i \in 1 .. Len(queue[q]) - n : queue'[q][i] = queue[q][n + i]
         /\ Elements(queue'[q]) \subseteq Elements(queue[q])
<1>1. queue \in [Queues -> Seq(Frames)]
  BY DEF TypeOK
<1>2. queue[q] \in Seq(Frames)
  BY QueueTypes
<1> DEFINE t == SubSeq(queue[q], n + 1, Len(queue[q]))
<1>3. /\ t \in Seq(Frames) /\ Len(t) = Len(queue[q]) - n
      /\ \A i \in 1 .. Len(queue[q]) - n : t[i] = queue[q][n + i]
      /\ Elements(t) \subseteq Elements(queue[q])
  BY <1>2, RestElements
<1>4. queue' = [queue EXCEPT ![q] = t]
  BY DEF Consume
<1>. QED
  BY <1>1, <1>3, <1>4

\* The sink appends what it consumes.
LEMMA AppendIs ==
  ASSUME TypeOK, NEW n \in 1 .. Len(queue["sink"]),
         stored' = stored \o SubSeq(queue["sink"], 1, n), Consume("sink", n)
  PROVE  /\ stored' \in Seq(Frames)
         /\ Len(stored) \in Nat /\ Len(stored') = Len(stored) + n
         /\ \A i \in 1 .. Len(stored) : stored'[i] = stored[i]
         /\ \A i \in 1 .. n : stored'[Len(stored) + i] = queue["sink"][i]
         /\ Elements(stored) \cup Elements(queue["sink"])
              = Elements(stored') \cup Elements(queue'["sink"])
         /\ Elements(stored') \subseteq Elements(stored) \cup Elements(queue["sink"])
<1>1. /\ queue["sink"] \in Seq(Frames) /\ stored \in Seq(Frames)
      /\ Len(queue["sink"]) \in Nat /\ Len(stored) \in Nat /\ "sink" \in Queues
  BY QueueTypes, LenProperties DEF TypeOK, Queues
<1>2. n \in 0 .. Len(queue["sink"])
  BY <1>1
<1> DEFINE t == SubSeq(queue["sink"], 1, n)
           u == SubSeq(queue["sink"], n + 1, Len(queue["sink"]))
<1>3. /\ t \in Seq(Frames) /\ Len(t) = n
      /\ \A i \in 1 .. n : t[i] = queue["sink"][i]
      /\ Elements(t) \subseteq Elements(queue["sink"])
      /\ Elements(queue["sink"]) = Elements(t) \cup Elements(u)
  BY <1>1, <1>2, FirstElements
<1>4. queue'["sink"] = u
  BY <1>1, <1>2, ConsumeIs
<1>5. stored' = stored \o t
  OBVIOUS
<1>. HIDE DEF t, u
<1>6. /\ stored' \in Seq(Frames) /\ Len(stored') = Len(stored) + Len(t)
      /\ \A i \in 1 .. Len(stored) : stored'[i] = stored[i]
      /\ \A i \in 1 .. Len(t) : stored'[Len(stored) + i] = t[i]
      /\ Elements(stored') = Elements(stored) \cup Elements(t)
  <2>1. stored \in Seq(Frames) /\ t \in Seq(Frames)
    BY <1>1, <1>3
  <2>2. /\ stored \o t \in Seq(Frames) /\ Len(stored \o t) = Len(stored) + Len(t)
        /\ \A i \in 1 .. Len(stored) : (stored \o t)[i] = stored[i]
        /\ \A i \in 1 .. Len(t) : (stored \o t)[Len(stored) + i] = t[i]
        /\ Elements(stored \o t) = Elements(stored) \cup Elements(t)
    BY ONLY <2>1, ConcatElements
  <2>. QED
    BY <1>5, <2>2
<1>. QED
  BY <1>1, <1>3, <1>4, <1>6

-------------------------------------------------------------------------------
(* The numbers of frames.                                                  *)

LEMMA NumbersOfRuns ==
  ASSUME NEW r \in 1 .. MaxRuns
  PROVE  /\ r * MaxFrames = (r - 1) * MaxFrames + MaxFrames
         /\ (r - 1) * MaxFrames \in Nat
         /\ r * MaxFrames <= MaxRuns * MaxFrames
         /\ MaxRuns * MaxFrames \in Nat
<1>1. r \in Nat /\ r - 1 \in Nat /\ MaxFrames \in Nat /\ MaxRuns \in Nat
  BY FramesAssumption, RunsAssumption
<1>2. r * MaxFrames = (r - 1) * MaxFrames + MaxFrames
  BY <1>1
<1>3. \A a, b \in Nat : a * b \in Nat
  OBVIOUS
<1>4. \A a, b \in Nat : a * MaxFrames <= (a + b) * MaxFrames
  <2>1. \A a, b \in Nat : (a + b) * MaxFrames = a * MaxFrames + b * MaxFrames
    BY <1>1
  <2> SUFFICES ASSUME NEW a \in Nat, NEW b \in Nat
               PROVE  a * MaxFrames <= (a + b) * MaxFrames
    OBVIOUS
  <2>2. a * MaxFrames \in Nat /\ b * MaxFrames \in Nat
    BY <1>1, <1>3
  <2>. QED
    BY <2>1, <2>2
<1>5. MaxRuns - r \in Nat /\ MaxRuns = r + (MaxRuns - r)
  BY <1>1
<1>. QED
  BY <1>1, <1>2, <1>3, <1>4, <1>5

LEMMA NumbersOfFrames ==
  ASSUME NEW r \in 1 .. MaxRuns, NEW k \in 0 .. MaxFrames - 1
  PROVE  (r - 1) * MaxFrames + k \in Ids
<1>1. MaxFrames \in Nat
  BY FramesAssumption
<1>. QED
  BY <1>1, NumbersOfRuns DEF Ids

-------------------------------------------------------------------------------
(* Types.                                                                  *)

SourcePcs == {"Exited", "Top", "Await", "Map", "Camera", "Unmap", "SigFilter",
              "SigSink", "Clear"}
Sources == [pc : SourcePcs, iframe : 0 .. MaxFrames, out : Queues \cup {"none"},
            early : BOOLEAN]
Filters == [pc : {"Exited", "Top", "Map", "Frames", "Reset", "Publish"},
            mapped : 0 .. QueueFrames, done : 0 .. QueueFrames, acc : Frames,
            last : BOOLEAN, left : BOOLEAN]

\* What the type invariant says, but for the queues' lengths.
Typed ==
  /\ phase \in {"Armed", "StartFilter", "StartSource", "Started", "Closing",
                "Joining"}
  /\ is_stopping \in [Threads -> BOOLEAN] /\ is_running \in [Threads -> BOOLEAN]
  /\ src \in Sources
  /\ flt \in Filters
  /\ snk \in {"Exited", "Top", "Poll", "Flush", "Stop"}
  /\ enable_filter \in BOOLEAN /\ is_accepting_writes \in BOOLEAN
  /\ sig_accumulator_reset \in BOOLEAN /\ reset_event \in BOOLEAN
  /\ queue \in [Queues -> Seq(Frames)] /\ stored \in Seq(Frames)
  /\ mapped \in [Queues -> SUBSET Writers]
  /\ readers \subseteq Queues /\ skipped \subseteq Frames
  /\ mishaps \subseteq Faults /\ run \in 0 .. MaxRuns

LEMMA TypeIs == TypeOK <=> Typed /\ \A q \in Queues : Len(queue[q]) <= QueueFrames
  BY DEF TypeOK, Typed, Sources, SourcePcs, Filters, Writers

LEMMA TypeIsNext == TypeOK' <=> Typed' /\ \A q \in Queues : Len(queue'[q]) <= QueueFrames
  BY DEF TypeOK, Typed, Sources, SourcePcs, Filters, Writers

LEMMA HappensIs ==
  ASSUME NEW what, Happens(what), mishaps \subseteq Faults
  PROVE  mishaps' = mishaps \cup {what} /\ what \in Faults /\ mishaps' \subseteq Faults
  BY DEF Happens

LEMMA ThisFrameIs ==
  ASSUME TypeOK, PhaseInv, src.pc = "Camera"
  PROVE  ThisFrame \in Frames /\ \E i \in Ids : ThisFrame = {i}
<1>1. run \in 1 .. MaxRuns /\ src.iframe \in 0 .. MaxFrames - 1
  BY FramesAssumption, RunsAssumption DEF TypeOK, PhaseInv
<1>2. (run - 1) * MaxFrames + src.iframe \in Ids
  BY <1>1, NumbersOfFrames
<1>. QED
  BY <1>2 DEF ThisFrame, Frames

LEMMA NextFrameIs ==
  ASSUME TypeOK, SliceInv, HasFrame
  PROVE  /\ flt.done + 1 \in 1 .. Len(queue["filter"])
         /\ NextFrame \in Frames /\ NextFrame \in Elements(queue["filter"])
         /\ flt.done + 1 \in 0 .. QueueFrames
<1>1. "filter" \in Queues
  BY DEF Queues
<1>2. flt.done \in Nat /\ flt.mapped \in Nat /\ flt.mapped <= QueueFrames
  BY QueueAssumption DEF TypeOK
<1>3. queue["filter"] \in Seq(Frames) /\ Len(queue["filter"]) \in Nat
  BY <1>1, QueueTypes
<1>4. flt.done + 1 \in 1 .. Len(queue["filter"]) /\ flt.done + 1 \in 0 .. QueueFrames
  BY <1>2, <1>3, QueueAssumption DEF SliceInv, HasFrame
<1>. QED
  BY <1>3, <1>4, ElementsOf, ElementOfSeq DEF NextFrame

LEMMA SourceTyped ==
  ASSUME TypeOK, PhaseInv, Source
  PROVE  Typed'
<1>1. Typed
  BY TypeIs
<1>2. UNCHANGED <<flt, snk, setup, stored>>
  BY DEF Source
<1>. USE FramesAssumption
<1>3. ASSUME NEW pc \in SourcePcs, Goto(pc)
      PROVE  src' \in Sources
  BY <1>1, <1>3 DEF Typed, Goto, Sources
<1>4. CASE SourceLoops
  <2>1. src' \in Sources
    BY <1>1, <1>4 DEF SourceLoops, Typed, SinkFirst, LeavesFilter, Sources, SourcePcs, Queues
  <2>2. sig_accumulator_reset' \in BOOLEAN
    BY <1>1, <1>4 DEF SourceLoops, Typed, LeavesFilter
  <2>. QED
    BY <1>1, <1>2, <1>4, <2>1, <2>2 DEF SourceLoops, Typed, setup, flags, queues
<1>5. CASE SourceAwaits
  <2>1. src' \in Sources
    BY <1>3, <1>5 DEF SourceAwaits, SourcePcs
  <2>. QED
    BY <1>1, <1>2, <1>5, <2>1 DEF SourceAwaits, Typed, setup, flags, queues
<1>6. CASE SourceMaps
  <2>1. src' \in Sources
    BY <1>3, <1>6 DEF SourceMaps, SourcePcs
  <2>2. src.out \in Queues
    BY <1>6, <1>1 DEF SourceMaps, PhaseInv, Typed, Sources
  <2>3. /\ queue' \in [Queues -> Seq(Frames)] /\ skipped' \subseteq Frames
        /\ mapped' \in [Queues -> SUBSET Writers]
    <3>1. CASE UNCHANGED <<queue, mapped, skipped>>
      BY <1>1, <3>1 DEF Typed
    <3>2. CASE MapRegion("source", src.out)
      BY <2>2, <3>2, MapRegionIs, TwoWriters
    <3>. QED
      BY <1>6, <3>1, <3>2 DEF SourceMaps
  <2>. QED
    BY <1>1, <1>2, <1>6, <2>1, <2>3 DEF SourceMaps, Typed, setup, flags, reset
<1>7. CASE SourceWrites
  <2>1. src.out \in Queues /\ src.iframe + 1 \in 0 .. MaxFrames
    BY <1>1, <1>7 DEF SourceWrites, Typed, PhaseInv, Sources
  <2>2. queue' \in [Queues -> Seq(Frames)] /\ mapped' \in [Queues -> SUBSET Writers]
    BY <1>7, <2>1, CommitAdds, TwoWriters, ThisFrameIs DEF SourceWrites
  <2>3. src' \in Sources
    BY <1>1, <1>7, <2>1 DEF SourceWrites, Typed, Sources, SourcePcs
  <2>. QED
    BY <1>1, <1>2, <1>7, <2>2, <2>3 DEF SourceWrites, Typed, setup, flags, reset
<1>8. CASE SourceAborts
  <2>1. src' \in Sources
    BY <1>3, <1>8 DEF SourceAborts, SourcePcs
  <2>2. src.out \in Queues
    BY <1>8, <1>1 DEF SourceAborts, PhaseInv, Typed, Sources
  <2>3. mapped' \in [Queues -> SUBSET Writers]
    BY <1>8, <2>2, AbortIs DEF SourceAborts
  <2>. QED
    BY <1>1, <1>2, <1>8, <2>1, <2>3 DEF SourceAborts, Typed, setup, flags, reset
<1>13. CASE SourceUnmaps
  <2>1. src' \in Sources
    BY <1>3, <1>13 DEF SourceUnmaps, SourcePcs
  <2>2. src.out \in Queues
    BY <1>13, <1>1 DEF SourceUnmaps, PhaseInv, Typed, Sources
  <2>3. queue' \in [Queues -> Seq(Frames)] /\ mapped' \in [Queues -> SUBSET Writers]
    BY <1>13, <2>2, CommitAdds, TwoWriters, TornIs DEF SourceUnmaps
  <2>. QED
    BY <1>1, <1>2, <1>13, <2>1, <2>3 DEF SourceUnmaps, Typed, setup, flags, reset
<1>9. CASE SourceFails
  <2>1. mishaps' \subseteq Faults
    BY <1>1, <1>9, HappensIs DEF SourceFails, Typed
  <2>2. src' \in Sources
    BY <1>3, <1>9 DEF SourceFails, SourcePcs
  <2>. QED
    BY <1>1, <1>2, <1>9, <2>1, <2>2 DEF SourceFails, Typed, setup, flags, reset, queues
<1>10. CASE SourceFinishes
  <2>1. src' \in Sources
    BY <1>3, <1>10 DEF SourceFinishes, SourcePcs
  <2>. QED
    BY <1>1, <1>2, <1>10, <2>1 DEF SourceFinishes, Typed, setup, flags, reset, queues
<1>11. CASE SourceSignals
  <2>1. src' \in Sources
    BY <1>3, <1>11 DEF SourceSignals, SourcePcs
  <2>2. is_stopping' \in [Threads -> BOOLEAN]
    BY <1>1, <1>11 DEF SourceSignals, Typed, Store
  <2>. QED
    BY <1>1, <1>2, <1>11, <2>1, <2>2 DEF SourceSignals, Typed, setup, reset, queues
<1>12. CASE SourceExits
  <2>1. src' \in Sources
    BY <1>3, <1>12 DEF SourceExits, SourcePcs
  <2>2. is_stopping' \in [Threads -> BOOLEAN] /\ is_running' \in [Threads -> BOOLEAN]
    BY <1>1, <1>12 DEF SourceExits, Typed, Store, Finish
  <2>. QED
    BY <1>1, <1>2, <1>12, <2>1, <2>2 DEF SourceExits, Typed, setup, reset, queues
<1>. QED
  BY <1>4, <1>5, <1>6, <1>7, <1>8, <1>9, <1>10, <1>11, <1>12, <1>13 DEF Source

LEMMA FilterTyped ==
  ASSUME TypeOK, SliceInv, Filter
  PROVE  Typed'
<1>1. Typed
  BY TypeIs
<1>2. UNCHANGED <<src, snk, setup, stored>>
  BY DEF Filter
<1>3. /\ 0 \in 0 .. QueueFrames /\ {} \in Frames /\ "sink" \in Queues /\ "filter" \in Queues
      /\ queue["filter"] \in Seq(Frames) /\ Len(queue["filter"]) \in Nat
      /\ flt.acc \in Frames /\ Len(queue["filter"]) <= QueueFrames
      /\ mapped \in [Queues -> SUBSET Writers]
  BY <1>1, TypeIs, QueueAssumption, QueueTypes DEF Frames, Queues, Typed, Filters
<1>4. CASE FilterLoops
  <2>1. flt' \in Filters
    BY <1>1, <1>4 DEF FilterLoops, Typed, Filters, Threads
  <2>. QED
    BY <1>1, <1>2, <1>4, <2>1 DEF FilterLoops, Typed, setup, flags, reset, queues
<1>5. CASE FilterMaps
  <2>1. ASSUME ReadNothing("filter"), FilterGoto("Frames") PROVE Typed'
    <3>1. flt' \in Filters
      BY <1>1, <2>1 DEF FilterGoto, Typed, Filters
    <3>2. queue' \in [Queues -> Seq(Frames)] /\ skipped' \subseteq Frames
      BY <1>3, <2>1, SkipIs DEF ReadNothing
    <3>3. readers' \subseteq Queues
      BY <1>1, <1>3, <2>1 DEF ReadNothing, Typed
    <3>. QED
      BY <1>1, <1>2, <1>5, <3>1, <3>2, <3>3 DEF FilterMaps, Typed, setup, flags, reset
  <2>2. ASSUME NEW n \in 1 .. Len(queue["filter"]),
               flt' = [flt EXCEPT !.pc = "Frames", !.mapped = n],
               readers' = readers \cup {"filter"}, UNCHANGED <<queue, skipped>>
        PROVE  Typed'
    <3>1. n \in 0 .. QueueFrames
      BY <1>3, QueueAssumption
    <3>2. flt' \in Filters
      BY <1>1, <2>2, <3>1 DEF Typed, Filters
    <3>. QED
      BY <1>1, <1>2, <1>3, <1>5, <2>2, <3>2 DEF FilterMaps, Typed, setup, flags, reset
  <2>. QED
    BY <1>5, <2>1, <2>2 DEF FilterMaps
<1>6. ASSUME NEW acc \in Frames, HasFrame, Seen(acc)
      PROVE  flt' \in Filters
  BY <1>1, <1>6, NextFrameIs DEF Seen, Typed, Filters
<1>7. CASE FilterStartsWindow
  <2>1. flt' \in Filters
    BY <1>3, <1>6, <1>7, NextFrameIs DEF FilterStartsWindow
  <2>2. /\ queue' \in [Queues -> Seq(Frames)] /\ skipped' \subseteq Frames
        /\ mapped' \in [Queues -> SUBSET Writers]
    <3>1. CASE UNCHANGED <<queue, mapped, skipped>>
      BY <1>1, <3>1 DEF Typed
    <3>2. CASE MapRegion("filter", "sink")
      BY <1>3, <3>2, MapRegionIs, TwoWriters
    <3>. QED
      BY <1>7, <3>1, <3>2 DEF FilterStartsWindow
  <2>. QED
    BY <1>1, <1>2, <1>7, <2>1, <2>2 DEF FilterStartsWindow, Typed, setup, flags, reset
<1>8. CASE FilterAdds
  <2>1. flt.acc \cup NextFrame \in Frames
    BY <1>3, <1>8, NextFrameIs DEF FilterAdds, Frames
  <2>2. flt' \in Filters
    BY <1>3, <1>6, <1>8, <2>1 DEF FilterAdds
  <2>3. queue' \in [Queues -> Seq(Frames)] /\ mapped' \in [Queues -> SUBSET Writers]
    <3>1. CASE UNCHANGED <<queue, mapped>>
      BY <1>1, <3>1 DEF Typed
    <3>2. CASE Commit("filter", "sink", flt.acc \cup NextFrame)
      BY <1>3, <2>1, <3>2, CommitAdds, TwoWriters
    <3>. QED
      BY <1>8, <3>1, <3>2 DEF FilterAdds
  <2>. QED
    BY <1>1, <1>2, <1>8, <2>2, <2>3 DEF FilterAdds, Typed, setup, flags, reset
<1>9. CASE FilterDropsWindow
  <2>1. flt' \in Filters
    BY <1>3, <1>6, <1>9 DEF FilterDropsWindow
  <2>2. mishaps' \subseteq Faults
    BY <1>1, <1>9, HappensIs DEF FilterDropsWindow, Typed
  <2>3. mapped' \in [Queues -> SUBSET Writers]
    BY <1>3, <1>9, AbortIs DEF FilterDropsWindow
  <2>. QED
    BY <1>1, <1>2, <1>9, <2>1, <2>2, <2>3 DEF FilterDropsWindow, Typed, setup, flags, reset
<1>10. CASE FilterFails
  <2>1. flt' \in Filters
    BY <1>1, <1>3, <1>10 DEF FilterFails, Typed, Filters
  <2>2. mishaps' \subseteq Faults
    BY <1>1, <1>10, HappensIs DEF FilterFails, Typed
  <2>3. queue' \in [Queues -> Seq(Frames)] /\ mapped' \in [Queues -> SUBSET Writers]
    BY <1>3, <1>10, CommitAdds, TwoWriters DEF FilterFails
  <2>. QED
    BY <1>1, <1>2, <1>10, <2>1, <2>2, <2>3 DEF FilterFails, Typed, setup, flags, reset
<1>11. CASE FilterUnmaps
  <2>1. flt' \in Filters
    BY <1>1, <1>3, <1>11 DEF FilterUnmaps, Typed, Filters
  <2>2. flt.mapped \in 0 .. Len(queue["filter"])
    BY <1>1, <1>3 DEF SliceInv, Typed, Filters
  <2>3. queue' \in [Queues -> Seq(Frames)]
    BY <1>3, <1>11, <2>2, ConsumeIs DEF FilterUnmaps
  <2>. QED
    BY <1>1, <1>2, <1>11, <2>1, <2>3 DEF FilterUnmaps, Typed, setup, flags, reset
<1>12. CASE FilterResets
  <2>1. flt' \in Filters
    BY <1>1, <1>3, <1>12 DEF FilterResets, Typed, Filters, FilterHasFrames
  <2>2. reset_event' \in BOOLEAN /\ sig_accumulator_reset' \in BOOLEAN
    BY <1>1, <1>12 DEF FilterResets, Typed
  <2>3. mapped' \in [Queues -> SUBSET Writers]
    BY <1>3, <1>12, AbortIs DEF FilterResets
  <2>. QED
    BY <1>1, <1>2, <1>12, <2>1, <2>2, <2>3 DEF FilterResets, Typed, setup, flags
<1>13. CASE FilterExits
  <2>1. flt' \in Filters
    BY <1>1, <1>3, <1>13 DEF FilterExits, Typed, Filters
  <2>2. queue' \in [Queues -> Seq(Frames)] /\ mapped' \in [Queues -> SUBSET Writers]
    <3>1. CASE UNCHANGED <<queue, mapped>>
      BY <1>1, <3>1 DEF Typed
    <3>2. CASE Commit("filter", "sink", flt.acc)
      BY <1>3, <3>2, CommitAdds, TwoWriters
    <3>. QED
      BY <1>13, <3>1, <3>2 DEF FilterExits
  <2>3. is_stopping' \in [Threads -> BOOLEAN] /\ is_running' \in [Threads -> BOOLEAN]
    BY <1>1, <1>13 DEF FilterExits, Typed, Store, Finish
  <2>. QED
    BY <1>1, <1>2, <1>13, <2>1, <2>2, <2>3 DEF FilterExits, Typed, setup, reset
<1>. QED
  BY <1>4, <1>5, <1>7, <1>8, <1>9, <1>10, <1>11, <1>12, <1>13 DEF Filter

LEMMA SinkTyped ==
  ASSUME TypeOK, Sink
  PROVE  Typed'
<1>1. Typed
  BY TypeIs
<1>2. UNCHANGED <<src, flt, reset, setup>>
  BY DEF Sink
<1>3. "sink" \in Queues
  BY DEF Queues
<1>4. CASE SinkLoops
  <2>1. mishaps' \subseteq Faults
    BY <1>1, <1>4, HappensIs DEF SinkLoops, Typed
  <2>. QED
    BY <1>1, <1>2, <1>4, <2>1 DEF SinkLoops, Typed, setup, flags, reset, queues
<1>5. CASE SinkAppends
  <2>1. PICK n \in 1 .. Len(queue["sink"]) :
          stored' = stored \o SubSeq(queue["sink"], 1, n) /\ Consume("sink", n)
    BY <1>5 DEF SinkAppends
  <2>2. n \in 0 .. Len(queue["sink"])
    BY <1>3, QueueTypes
  <2>3. queue' \in [Queues -> Seq(Frames)] /\ stored' \in Seq(Frames)
    BY <1>3, <2>1, <2>2, ConsumeIs, AppendIs
  <2>. QED
    BY <1>1, <1>2, <1>3, <1>5, <2>3 DEF SinkAppends, Typed, setup, flags, reset
<1>6. CASE SinkFindsNothing
  <2>1. queue' \in [Queues -> Seq(Frames)] /\ skipped' \subseteq Frames
    BY <1>3, <1>6, SkipIs DEF SinkFindsNothing, ReadNothing
  <2>. QED
    BY <1>1, <1>2, <1>3, <1>6, <2>1
      DEF SinkFindsNothing, ReadNothing, Typed, setup, flags, reset
<1>7. CASE SinkFails
  <2>1. mishaps' \subseteq Faults
    BY <1>1, <1>7, HappensIs DEF SinkFails, Typed
  <2>2. is_stopping' \in [Threads -> BOOLEAN]
    BY <1>1, <1>7 DEF SinkFails, Typed, Store
  <2>. QED
    BY <1>1, <1>2, <1>3, <1>7, <2>1, <2>2 DEF SinkFails, Typed, setup, reset
<1>8. CASE SinkExits
  <2>1. is_stopping' \in [Threads -> BOOLEAN] /\ is_running' \in [Threads -> BOOLEAN]
    BY <1>1, <1>8 DEF SinkExits, Typed, Store, Finish
  <2>. QED
    BY <1>1, <1>2, <1>8, <2>1 DEF SinkExits, Typed, setup, reset, queues
<1>. QED
  BY <1>4, <1>5, <1>6, <1>7, <1>8 DEF Sink

LEMMA ClientTyped ==
  ASSUME TypeOK, Client
  PROVE  Typed'
<1>1. Typed
  BY TypeIs
<1>2. UNCHANGED <<reset, queues>>
  BY DEF Client
<1>3. ASSUME NEW t, Launch(t)
      PROVE  is_stopping' \in [Threads -> BOOLEAN] /\ is_running' \in [Threads -> BOOLEAN]
  BY <1>1, <1>3 DEF Typed, Store, Launch
<1>4. CASE StartSink
  <2>1. run' \in 0 .. MaxRuns
    BY <1>1, <1>4, RunsAssumption DEF StartSink, Typed
  <2>2. stored' \in Seq(Frames) /\ mishaps' \subseteq Faults
    BY <1>1, <1>4, EmptyFrames DEF StartSink, Typed
  <2>. QED
    BY <1>1, <1>2, <1>3, <1>4, <2>1, <2>2 DEF StartSink, Typed, reset, queues
<1>5. CASE StartFilter
  <2>1. flt' \in Filters
    BY <1>1, <1>5 DEF StartFilter, Typed, Filters
  <2>. QED
    BY <1>1, <1>2, <1>3, <1>5, <2>1 DEF StartFilter, Typed, reset, queues
<1>6. CASE StartSource
  <2>1. src' \in Sources
    BY <1>6, FramesAssumption DEF StartSource, Sources, SourcePcs
  <2>. QED
    BY <1>1, <1>2, <1>3, <1>6, <2>1 DEF StartSource, Typed, reset, queues
<1>7. CASE StartFails
  BY <1>1, <1>2, <1>7, HappensIs DEF StartFails, Typed, flags, reset, queues
<1>8. CASE Configure
  BY <1>1, <1>2, <1>8, HappensIs DEF Configure, Typed, flags, reset, queues
<1>9. CASE CallStop
  <2>1. mishaps' \subseteq Faults /\ is_stopping' \in [Threads -> BOOLEAN]
    BY <1>1, <1>9, HappensIs DEF CallStop, Typed, Store
  <2>. QED
    BY <1>1, <1>2, <1>9, <2>1 DEF CallStop, Typed, reset, queues
<1>10. CASE AbortCloses
  BY <1>1, <1>2, <1>10 DEF AbortCloses, Typed, flags, reset, queues
<1>11. CASE Joined
  BY <1>1, <1>2, <1>11 DEF Joined, Typed, flags, reset, queues
<1>. QED
  BY <1>4, <1>5, <1>6, <1>7, <1>8, <1>9, <1>10, <1>11 DEF Client

-------------------------------------------------------------------------------
(* Who is at work in which phase.                                          *)

LEMMA RecordsOf ==
  ASSUME TypeOK
  PROVE  src \in Sources /\ flt \in Filters /\ run \in Nat /\ run <= MaxRuns
  BY TypeIs, RunsAssumption DEF Typed

LEMMA GotoIs ==
  ASSUME TypeOK, NEW pc, Goto(pc)
  PROVE  /\ src'.pc = pc /\ src'.iframe = src.iframe /\ src'.out = src.out
         /\ src'.early = src.early
  BY RecordsOf DEF Goto, Sources

\* What the steps of a thread do to its own state.
LEMMA SourceMoves ==
  ASSUME TypeOK
  PROVE  /\ SourceLoops =>
              /\ src'.pc = (IF LeavesFilter THEN "Await" ELSE "Map")
              /\ src'.out = (IF enable_filter THEN "filter" ELSE "sink")
              /\ src'.early = SinkFirst /\ src'.iframe = src.iframe
         /\ SourceWrites =>
              /\ src'.pc = "Top" /\ src'.iframe = src.iframe + 1
              /\ src'.out = src.out /\ src'.early = src.early
         /\ Source /\ ~SourceWrites => src'.iframe = src.iframe
         /\ Source /\ ~SourceLoops => src'.out = src.out /\ src'.early = src.early
<1>1. src \in Sources
  BY RecordsOf
<1>2. SourceLoops =>
              /\ src'.pc = (IF LeavesFilter THEN "Await" ELSE "Map")
              /\ src'.out = (IF enable_filter THEN "filter" ELSE "sink")
              /\ src'.early = SinkFirst /\ src'.iframe = src.iframe
  BY <1>1 DEF SourceLoops, Sources
<1>3. SourceWrites =>
              /\ src'.pc = "Top" /\ src'.iframe = src.iframe + 1
              /\ src'.out = src.out /\ src'.early = src.early
  BY <1>1 DEF SourceWrites, Sources
<1>4. Source => SourceLoops \/ SourceWrites \/ \E pc : Goto(pc)
  BY DEF Source, SourceAwaits, SourceMaps, SourceAborts, SourceUnmaps, SourceFails,
    SourceFinishes, SourceSignals, SourceExits
<1>. QED
  BY <1>2, <1>3, <1>4, GotoIs

LEMMA SourceGoes ==
  ASSUME TypeOK
  PROVE  /\ SourceAwaits => src'.pc = "Map"
         /\ SourceMaps => src'.pc \in {"Camera", "Top"}
         /\ SourceAborts => src'.pc = "Unmap"
         /\ SourceUnmaps => src'.pc = "Top"
         /\ SourceFails \/ SourceFinishes => src'.pc = "SigFilter"
         /\ SourceSignals =>
              \/ src.pc = "SigFilter" /\ src'.pc = "SigSink"
                 /\ Store(is_stopping, "filter", TRUE)
              \/ src.pc = "SigSink" /\ src'.pc = "Clear"
                 /\ Store(is_stopping, "sink", TRUE)
         /\ SourceExits => src'.pc = "Exited"
<1>1. SourceAwaits => src'.pc = "Map"
  BY GotoIs DEF SourceAwaits
<1>2. SourceMaps => src'.pc \in {"Camera", "Top"}
  <2>1. SourceMaps => Goto("Camera") \/ Goto("Top")
    BY DEF SourceMaps
  <2>. QED
    BY <2>1, GotoIs
<1>3. SourceAborts => src'.pc = "Unmap"
  BY GotoIs DEF SourceAborts
<1>9. SourceUnmaps => src'.pc = "Top"
  BY GotoIs DEF SourceUnmaps
<1>4. SourceFails \/ SourceFinishes => src'.pc = "SigFilter"
  BY GotoIs DEF SourceFails, SourceFinishes
<1>5. SourceSignals =>
        \/ src.pc = "SigFilter" /\ Goto("SigSink") /\ Store(is_stopping, "filter", TRUE)
        \/ src.pc = "SigSink" /\ Goto("Clear") /\ Store(is_stopping, "sink", TRUE)
  BY DEF SourceSignals
<1>6. Goto("SigSink") => src'.pc = "SigSink"
  BY GotoIs
<1>7. Goto("Clear") => src'.pc = "Clear"
  BY GotoIs
<1>8. SourceExits => src'.pc = "Exited"
  BY GotoIs DEF SourceExits
<1>. QED
  BY <1>1, <1>2, <1>3, <1>4, <1>5, <1>6, <1>7, <1>8, <1>9

FilterKeeps == flt'.mapped = flt.mapped /\ flt'.done = flt.done

LEMMA SeenIs ==
  ASSUME TypeOK, NEW acc, Seen(acc)
  PROVE  /\ flt'.pc = flt.pc /\ flt'.mapped = flt.mapped /\ flt'.done = flt.done + 1
         /\ flt'.acc = acc /\ flt'.last = flt.last /\ flt'.left = flt.left
  BY RecordsOf DEF Seen, Filters

LEMMA FilterMoves ==
  ASSUME TypeOK
  PROVE  /\ FilterLoops =>
              /\ flt'.pc = "Map" /\ flt'.last = is_stopping["filter"]
              /\ FilterKeeps /\ flt'.acc = flt.acc /\ flt'.left = flt.left
         /\ FilterMaps =>
              /\ flt'.pc = "Frames" /\ flt'.last = flt.last /\ flt'.left = flt.left
              /\ flt'.acc = flt.acc /\ flt'.done = flt.done
              /\ \/ ReadNothing("filter") /\ flt'.mapped = flt.mapped
                 \/ /\ flt'.mapped \in 1 .. Len(queue["filter"])
                    /\ readers' = readers \cup {"filter"} /\ UNCHANGED <<queue, skipped>>
         /\ FilterFails =>
              /\ flt'.pc = "Publish" /\ flt'.mapped = 0 /\ flt'.done = 0
              /\ flt'.acc = {} /\ flt'.last = flt.last /\ flt'.left = flt.left
         /\ FilterUnmaps =>
              /\ flt'.pc = "Reset" /\ flt'.mapped = 0 /\ flt'.done = 0
              /\ flt'.acc = flt.acc /\ flt'.last = flt.last /\ flt'.left = flt.left
         /\ FilterResets =>
              /\ flt'.pc = (IF flt.last THEN "Publish" ELSE "Top") /\ FilterKeeps
              /\ flt'.acc = (IF sig_accumulator_reset THEN {} ELSE flt.acc)
              /\ flt'.left = (IF sig_accumulator_reset THEN FilterHasFrames ELSE flt.left)
              /\ flt'.last = flt.last
         /\ FilterExits =>
              /\ flt'.pc = "Exited" /\ FilterKeeps /\ flt'.acc = {}
              /\ flt'.last = flt.last /\ flt'.left = flt.left
<1>1. flt \in Filters
  BY RecordsOf
<1>2. FilterLoops =>
        /\ flt'.pc = "Map" /\ flt'.last = is_stopping["filter"]
        /\ FilterKeeps /\ flt'.acc = flt.acc /\ flt'.left = flt.left
  BY <1>1 DEF FilterLoops, FilterKeeps, Filters
<1>3. ASSUME FilterMaps
      PROVE  /\ flt'.pc = "Frames" /\ flt'.last = flt.last /\ flt'.left = flt.left
             /\ flt'.acc = flt.acc /\ flt'.done = flt.done
             /\ \/ ReadNothing("filter") /\ flt'.mapped = flt.mapped
                \/ /\ flt'.mapped \in 1 .. Len(queue["filter"])
                   /\ readers' = readers \cup {"filter"} /\ UNCHANGED <<queue, skipped>>
  <2>1. CASE ReadNothing("filter") /\ FilterGoto("Frames")
    BY <1>1, <2>1 DEF FilterGoto, Filters
  <2>2. CASE \E n \in 1 .. Len(queue["filter"]) :
               /\ flt' = [flt EXCEPT !.pc = "Frames", !.mapped = n]
               /\ readers' = readers \cup {"filter"} /\ UNCHANGED <<queue, skipped>>
    BY <1>1, <2>2 DEF Filters
  <2>. QED
    BY <1>3, <2>1, <2>2 DEF FilterMaps
<1>4. FilterFails =>
        /\ flt'.pc = "Publish" /\ flt'.mapped = 0 /\ flt'.done = 0
        /\ flt'.acc = {} /\ flt'.last = flt.last /\ flt'.left = flt.left
  BY <1>1 DEF FilterFails, Filters
<1>5. FilterUnmaps =>
        /\ flt'.pc = "Reset" /\ flt'.mapped = 0 /\ flt'.done = 0
        /\ flt'.acc = flt.acc /\ flt'.last = flt.last /\ flt'.left = flt.left
  BY <1>1 DEF FilterUnmaps, Filters
<1>6. FilterResets =>
        /\ flt'.pc = (IF flt.last THEN "Publish" ELSE "Top") /\ FilterKeeps
        /\ flt'.acc = (IF sig_accumulator_reset THEN {} ELSE flt.acc)
        /\ flt'.left = (IF sig_accumulator_reset THEN FilterHasFrames ELSE flt.left)
        /\ flt'.last = flt.last
  BY <1>1 DEF FilterResets, FilterKeeps, Filters
<1>7. FilterExits =>
        /\ flt'.pc = "Exited" /\ FilterKeeps /\ flt'.acc = {}
        /\ flt'.last = flt.last /\ flt'.left = flt.left
  BY <1>1 DEF FilterExits, FilterKeeps, Filters
<1>. QED
  BY <1>2, <1>3, <1>4, <1>5, <1>6, <1>7

\* The filter's steps on a frame.
FilterSees == FilterStartsWindow \/ FilterAdds \/ FilterDropsWindow

LEMMA FilterSeesIs ==
  ASSUME TypeOK, FilterSees
  PROVE  /\ HasFrame /\ flt'.pc = "Frames" /\ flt'.mapped = flt.mapped
         /\ flt'.done = flt.done + 1 /\ flt'.last = flt.last /\ flt'.left = flt.left
         /\ FilterStartsWindow =>
              /\ flt.acc = {} /\ flt'.acc \in {{}, NextFrame}
         /\ FilterAdds =>
              /\ flt.acc # {} /\ flt'.acc \in {{}, flt.acc \cup NextFrame}
         /\ FilterDropsWindow => flt.acc # {} /\ flt'.acc = {}
<1>1. HasFrame /\ flt.pc = "Frames"
  BY DEF FilterSees, FilterStartsWindow, FilterAdds, FilterDropsWindow, HasFrame
<1>2. CASE FilterStartsWindow
  BY <1>1, <1>2, SeenIs DEF FilterStartsWindow, FilterAdds, FilterDropsWindow
<1>3. CASE FilterAdds
  BY <1>1, <1>3, SeenIs DEF FilterStartsWindow, FilterAdds, FilterDropsWindow
<1>4. CASE FilterDropsWindow
  BY <1>1, <1>4, SeenIs DEF FilterStartsWindow, FilterAdds, FilterDropsWindow
<1>. QED
  BY <1>2, <1>3, <1>4 DEF FilterSees

\* The start of a thread.
LEMMA LaunchIs ==
  ASSUME TypeOK, NEW t \in Threads, Launch(t)
  PROVE  /\ is_stopping'[t] = FALSE
         /\ \A u \in Threads : u # t => is_stopping'[u] = is_stopping[u]
  BY DEF Launch, Store, TypeOK

LEMMA StartFilterIs ==
  ASSUME TypeOK, StartFilter
  PROVE  /\ flt'.pc = "Top" /\ flt'.last = FALSE /\ flt'.left = FALSE
         /\ FilterKeeps /\ flt'.acc = flt.acc
  BY RecordsOf DEF StartFilter, FilterKeeps, Filters

LEMMA StartSourceIs ==
  ASSUME StartSource
  PROVE  src'.pc = "Top" /\ src'.iframe = 0 /\ src'.out = "none" /\ src'.early = FALSE
  BY DEF StartSource

LEMMA SourcePhase ==
  ASSUME TypeOK, PhaseInv, Source
  PROVE  PhaseInv'
<1>1. src \in Sources /\ UNCHANGED <<flt, snk, phase, run>>
  BY RecordsOf DEF Source, setup
<1>2. src.pc # "Exited"
  BY DEF Source, SourceLoops, SourceAwaits, SourceMaps, SourceWrites, SourceAborts,
    SourceUnmaps, SourceFails, SourceFinishes, SourceSignals, SourceExits
<1>5. src'.out = "none" => src'.iframe = 0
  <2>1. SourceLoops => src'.out # "none"
    BY SourceMoves
  <2>2. SourceWrites => src'.out # "none"
    BY SourceMoves DEF SourceWrites, PhaseInv
  <2>. QED
    BY <2>1, <2>2, SourceMoves DEF PhaseInv
<1>3. CASE src'.pc \notin {"Await", "Map", "Camera", "Unmap"}
  BY <1>1, <1>2, <1>3, <1>5 DEF PhaseInv
<1>4. CASE src'.pc \in {"Await", "Map", "Camera", "Unmap"}
  <2>1. SourceLoops \/ SourceAwaits \/ SourceMaps \/ SourceAborts
    <3>1. SourceUnmaps \/ SourceFails \/ SourceFinishes \/ SourceSignals \/ SourceExits
            => src'.pc \notin {"Await", "Map", "Camera", "Unmap"}
      BY SourceGoes
    <3>2. SourceWrites => src'.pc = "Top"
      BY SourceMoves
    <3>. QED
      BY <1>4, <3>1, <3>2 DEF Source
  <2>2. src'.iframe < MaxFrames /\ src'.out # "none"
    BY <1>1, <2>1, GotoIs, SourceMoves DEF SourceLoops, SourceAwaits, SourceMaps, SourceAborts,
      PhaseInv, MoreFrames
  <2>. QED
    BY <1>1, <1>2, <1>5, <2>2 DEF PhaseInv
<1>. QED
  BY <1>3, <1>4

LEMMA FilterPhase ==
  ASSUME TypeOK, PhaseInv, Filter
  PROVE  PhaseInv'
<1>1. flt \in Filters /\ UNCHANGED <<src, snk, phase, run>>
  BY RecordsOf DEF Filter, setup
<1>2. flt.pc # "Exited"
  BY DEF Filter, FilterLoops, FilterMaps, FilterStartsWindow, FilterAdds, FilterDropsWindow,
    FilterFails, FilterUnmaps, FilterResets, FilterExits, HasFrame
<1>3. flt'.pc = "Top" => ~flt'.last
  <2>1. FilterResets => (flt'.pc = "Top" => ~flt'.last)
    BY FilterMoves
  <2>2. FilterLoops \/ FilterMaps \/ FilterFails \/ FilterUnmaps \/ FilterExits => flt'.pc # "Top"
    BY FilterMoves
  <2>3. FilterSees => flt'.pc # "Top"
    BY FilterSeesIs
  <2>. QED
    BY <2>1, <2>2, <2>3 DEF Filter, FilterSees
<1>. QED
  BY <1>1, <1>2, <1>3 DEF PhaseInv

LEMMA SinkPhase ==
  ASSUME PhaseInv, Sink
  PROVE  PhaseInv'
<1>1. UNCHANGED <<src, flt, phase, run>>
  BY DEF Sink, setup
<1>2. snk # "Exited"
  BY DEF Sink, SinkLoops, SinkAppends, SinkFindsNothing, SinkFails, SinkExits, Reading
<1>. QED
  BY <1>1, <1>2 DEF PhaseInv

LEMMA ClientPhase ==
  ASSUME TypeOK, PhaseInv, Client
  PROVE  PhaseInv'
<1>1. src \in Sources /\ flt \in Filters /\ run \in Nat
  BY RecordsOf
<1>2. CASE StartSink
  BY <1>1, <1>2 DEF StartSink, PhaseInv
<1>5. CASE StartFilter
  BY <1>1, <1>5, StartFilterIs DEF StartFilter, PhaseInv
<1>3. CASE StartSource
  BY <1>3 DEF StartSource, PhaseInv
<1>4. CASE StartFails \/ Configure \/ CallStop \/ AbortCloses \/ Joined
  BY <1>4 DEF StartFails, Configure, CallStop, AbortCloses, Joined, PhaseInv
<1>. QED
  BY <1>2, <1>3, <1>4, <1>5 DEF Client

-------------------------------------------------------------------------------
(* What the steps of a thread do to the queues.                            *)

LEMMA TwoQueues == "filter" \in Queues /\ "sink" \in Queues
  BY DEF Queues

\* The source's queue is the one it has mapped a region of.
LEMMA SourceQueues ==
  ASSUME TypeOK, PhaseInv, Source
  PROVE  /\ ~SourceMaps /\ ~SourceWrites /\ ~SourceUnmaps => UNCHANGED <<queue, skipped>>
         /\ SourceMaps =>
              \/ /\ src.pc = "Map" /\ src.out \in Queues /\ src'.pc = "Camera"
                 /\ MapRegion("source", src.out)
              \/ src.pc = "Map" /\ src'.pc = "Top" /\ UNCHANGED <<queue, mapped, skipped>>
         /\ SourceWrites =>
              /\ src.pc = "Camera" /\ src.out \in Queues
              /\ Commit("source", src.out, ThisFrame)
              /\ ThisFrame \in Frames /\ UNCHANGED skipped
         /\ SourceUnmaps =>
              /\ src.pc = "Unmap" /\ src.out \in Queues
              /\ Commit("source", src.out, Torn) /\ UNCHANGED skipped
         /\ UNCHANGED readers
         /\ \A q \in Queues : q # src.out => queue'[q] = queue[q]
<1>1. src.pc \in {"Map", "Camera", "Unmap"} => src.out \in Queues
  BY RecordsOf DEF PhaseInv, Sources
<1>2. ~SourceMaps /\ ~SourceWrites /\ ~SourceUnmaps => UNCHANGED <<queue, skipped, readers>>
  BY DEF Source, SourceLoops, SourceAwaits, SourceAborts,
    SourceFails, SourceFinishes, SourceSignals, SourceExits, queues
<1>3. SourceMaps =>
        /\ UNCHANGED readers
        /\ \/ /\ src.pc = "Map" /\ src.out \in Queues /\ src'.pc = "Camera"
              /\ MapRegion("source", src.out)
           \/ src.pc = "Map" /\ src'.pc = "Top" /\ UNCHANGED <<queue, mapped, skipped>>
  BY <1>1, GotoIs DEF SourceMaps
<1>4. SourceWrites =>
        /\ src.pc = "Camera" /\ src.out \in Queues /\ Commit("source", src.out, ThisFrame)
        /\ ThisFrame \in Frames /\ UNCHANGED <<skipped, readers>>
  BY <1>1, ThisFrameIs DEF SourceWrites
<1>7. SourceUnmaps =>
        /\ src.pc = "Unmap" /\ src.out \in Queues /\ Commit("source", src.out, Torn)
        /\ UNCHANGED <<skipped, readers>>
  BY <1>1 DEF SourceUnmaps
<1>5. src.out \in Queues /\ MapRegion("source", src.out) =>
        \A q \in Queues : q # src.out => queue'[q] = queue[q]
  BY MapRegionIs, TwoWriters
<1>6. ASSUME src.out \in Queues, NEW f \in Frames, Commit("source", src.out, f)
      PROVE  \A q \in Queues : q # src.out => queue'[q] = queue[q]
  BY <1>6, CommitAdds, TwoWriters
<1>8. \A q \in Queues : q # src.out => queue'[q] = queue[q]
  BY <1>2, <1>3, <1>4, <1>5, <1>6, <1>7, TornIs
<1>. QED
  BY <1>2, <1>3, <1>4, <1>7, <1>8

\* Alone with its queue, the source adds its frames and nothing else.
LEMMA SourceAlone ==
  ASSUME TypeOK, PhaseInv, RegionInv, Source, src.out = "filter" \/ "switch" \notin mishaps
  PROVE  /\ ~SourceMaps /\ ~SourceWrites => UNCHANGED <<queue, skipped>>
         /\ SourceWrites => Puts(src.out, ThisFrame)
<1>1. SourceWrites => Puts(src.out, ThisFrame)
  <2> SUFFICES ASSUME SourceWrites PROVE Puts(src.out, ThisFrame)
    OBVIOUS
  <2>1. /\ src.pc = "Camera" /\ src.out \in Queues /\ Commit("source", src.out, ThisFrame)
        /\ ThisFrame \in Frames
    BY SourceQueues
  <2>2. mapped[src.out] = {"source"}
    BY <2>1 DEF RegionInv, Queues
  <2>. QED
    BY <2>1, <2>2, CommitIs, TwoWriters
<1>2. SourceUnmaps => UNCHANGED <<queue, skipped>>
  <2> SUFFICES ASSUME SourceUnmaps PROVE UNCHANGED <<queue, skipped>>
    OBVIOUS
  <2>1. /\ src.pc = "Unmap" /\ src.out \in Queues /\ Commit("source", src.out, Torn)
        /\ UNCHANGED skipped
    BY SourceQueues
  <2>2. ~Accepts(src.out) \/ mapped[src.out] = {}
    BY <2>1 DEF RegionInv, Queues, Accepts
  <2>. QED
    BY <2>1, <2>2 DEF Commit
<1>. QED
  BY <1>1, <1>2, SourceQueues

LEMMA SourceSlice ==
  ASSUME TypeOK, PhaseInv, SliceInv, Source
  PROVE  SliceInv'
<1>1. UNCHANGED <<flt, readers>>
  BY SourceQueues DEF Source
<1>2. flt \in Filters /\ Len(queue["filter"]) \in Nat
  BY RecordsOf, TwoQueues, QueueTypes
<1>3. flt.mapped \in Nat
  BY <1>2, QueueAssumption DEF Filters
<1>4. Len(queue'["filter"]) \in Nat /\ flt.mapped <= Len(queue'["filter"])
  <2>1. CASE UNCHANGED queue
    BY <1>2, <2>1 DEF SliceInv
  <2>2. CASE src.out \in Queues /\ MapRegion("source", src.out)
    <3>1. CASE src.out = "filter"
      <4>1. CASE flt.mapped = 0
        BY <1>2, <2>2, <3>1, <4>1, MapRegionIs, TwoWriters, EmptyFrames
      <4>2. CASE flt.mapped > 0
        <5>1. "filter" \in readers
          BY <4>2 DEF SliceInv
        <5>2. queue' = queue
          BY <2>2, <3>1, <5>1, MapRegionIs, TwoWriters
        <5>. QED
          BY <1>2, <5>2 DEF SliceInv
      <4>. QED
        BY <1>3, <4>1, <4>2
    <3>2. CASE src.out # "filter"
      BY <1>2, <3>2, SourceQueues, TwoQueues DEF SliceInv
    <3>. QED
      BY <3>1, <3>2
  <2>3. CASE src.out \in Queues /\ \E f \in Frames : Commit("source", src.out, f)
    <3>1. CASE src.out = "filter"
      <4>1. Len(queue'["filter"]) \in {Len(queue["filter"]), Len(queue["filter"]) + 1}
        BY <1>2, <2>3, <3>1, CommitAdds, TwoWriters
      <4>2. flt.mapped <= Len(queue["filter"])
        BY DEF SliceInv
      <4>. QED
        BY <1>2, <1>3, <4>1, <4>2
    <3>2. CASE src.out # "filter"
      BY <1>2, <3>2, SourceQueues, TwoQueues DEF SliceInv
    <3>. QED
      BY <3>1, <3>2
  <2>. QED
    BY <2>1, <2>2, <2>3, SourceQueues, TornIs
<1>. QED
  BY <1>1, <1>4 DEF SliceInv

\* The filter commits to the sink's queue what it holds, and lets go of its own
\* at the end of a slice.
Commits(f) ==
  f \in Frames /\ f # {} /\ flt.acc # {} /\ Commit("filter", "sink", f) /\ UNCHANGED skipped

LEMMA CommitsIs ==
  ASSUME TypeOK, NEW f, Commits(f)
  PROVE  /\ queue'["filter"] = queue["filter"] /\ queue' \in [Queues -> Seq(Frames)]
         /\ mapped'["filter"] = mapped["filter"] /\ mapped'["sink"] \in {{}, mapped["sink"]}
         /\ Elements(queue'["sink"]) \subseteq Elements(queue["sink"]) \cup {f, Torn}
  BY CommitAdds, TwoQueues, TwoWriters DEF Commits

\* Alone with the sink's queue, it publishes that, and all of that.
Publishes(f) == f \in Frames /\ f # {} /\ Puts("sink", f) /\ UNCHANGED skipped

LEMMA FilterAlone ==
  ASSUME TypeOK, RegionInv, "switch" \notin mishaps, NEW f, Commits(f)
  PROVE  Publishes(f)
<1>1. mapped["sink"] = {"filter"}
  BY DEF Commits, RegionInv
<1>. QED
  BY <1>1, CommitIs, TwoQueues, TwoWriters DEF Commits, Publishes

LEMMA FilterQueues ==
  ASSUME TypeOK, SliceInv, Filter
  PROVE  /\ FilterLoops \/ FilterResets \/ FilterDropsWindow => UNCHANGED <<queue, skipped>>
         /\ FilterStartsWindow =>
              \/ MapRegion("filter", "sink") /\ flt'.acc = NextFrame
              \/ UNCHANGED <<queue, mapped, skipped>> /\ flt'.acc = {}
         /\ FilterAdds =>
              \/ /\ Commits(flt.acc \cup NextFrame) /\ flt'.acc = {}
                 /\ Cardinality(flt.acc \cup NextFrame) >= Window
              \/ /\ UNCHANGED <<queue, mapped, skipped>> /\ flt'.acc = flt.acc \cup NextFrame
                 /\ ~(Cardinality(flt.acc \cup NextFrame) >= Window)
         /\ FilterFails => Commits(flt.acc)
         /\ FilterExits =>
              \/ flt.acc # {} /\ Commits(flt.acc)
              \/ flt.acc = {} /\ UNCHANGED <<queue, mapped, skipped>>
         /\ FilterUnmaps =>
              /\ flt.mapped \in 0 .. Len(queue["filter"])
              /\ Consume("filter", flt.mapped) /\ UNCHANGED <<skipped, readers>>
         /\ FilterLoops \/ FilterSees \/ FilterFails \/ FilterResets \/ FilterExits =>
              queue'["filter"] = queue["filter"] /\ UNCHANGED readers
<1>1. flt \in Filters /\ Len(queue["filter"]) \in Nat /\ flt.acc \in Frames
  BY RecordsOf, TwoQueues, QueueTypes DEF Filters
<1>2. FilterLoops \/ FilterResets \/ FilterDropsWindow => UNCHANGED <<queue, skipped, readers>>
  BY DEF FilterLoops, FilterResets, FilterDropsWindow, queues
<1>3. FilterStartsWindow =>
        \/ MapRegion("filter", "sink") /\ flt'.acc = NextFrame
        \/ UNCHANGED <<queue, mapped, skipped>> /\ flt'.acc = {}
  BY SeenIs DEF FilterStartsWindow
<1>4. FilterAdds =>
        \/ /\ Commits(flt.acc \cup NextFrame) /\ flt'.acc = {}
           /\ Cardinality(flt.acc \cup NextFrame) >= Window
        \/ /\ UNCHANGED <<queue, mapped, skipped>> /\ flt'.acc = flt.acc \cup NextFrame
           /\ ~(Cardinality(flt.acc \cup NextFrame) >= Window)
  <2> SUFFICES ASSUME FilterAdds
               PROVE  \/ /\ Commits(flt.acc \cup NextFrame) /\ flt'.acc = {}
                         /\ Cardinality(flt.acc \cup NextFrame) >= Window
                      \/ /\ UNCHANGED <<queue, mapped, skipped>> /\ flt'.acc = flt.acc \cup NextFrame
                         /\ ~(Cardinality(flt.acc \cup NextFrame) >= Window)
    OBVIOUS
  <2>1. flt.acc \cup NextFrame \in Frames /\ flt.acc \cup NextFrame # {}
    BY <1>1, NextFrameIs DEF FilterAdds, Frames
  <2>2. CASE Cardinality(flt.acc \cup NextFrame) >= Window
    BY <2>1, <2>2, SeenIs DEF FilterAdds, Commits
  <2>3. CASE ~(Cardinality(flt.acc \cup NextFrame) >= Window)
    BY <2>1, <2>3, SeenIs DEF FilterAdds
  <2>. QED
    BY <2>2, <2>3
<1>5. FilterFails => Commits(flt.acc)
  BY <1>1 DEF FilterFails, Commits
<1>6. FilterExits =>
        \/ flt.acc # {} /\ Commits(flt.acc)
        \/ flt.acc = {} /\ UNCHANGED <<queue, mapped, skipped>>
  BY <1>1 DEF FilterExits, Commits
<1>7. FilterUnmaps =>
        /\ flt.mapped \in 0 .. Len(queue["filter"])
        /\ Consume("filter", flt.mapped) /\ UNCHANGED <<skipped, readers>>
  BY <1>1, QueueAssumption DEF FilterUnmaps, SliceInv, Filters
<1>8. FilterLoops \/ FilterSees \/ FilterFails \/ FilterResets \/ FilterExits =>
        UNCHANGED readers
  BY <1>2 DEF FilterSees, FilterStartsWindow, FilterAdds, FilterFails, FilterExits
<1>9. \A f : Commits(f) => queue'["filter"] = queue["filter"]
  BY CommitsIs
<1>10. MapRegion("filter", "sink") => queue'["filter"] = queue["filter"]
  BY MapRegionIs, TwoQueues, TwoWriters
<1>11. FilterLoops \/ FilterSees \/ FilterFails \/ FilterResets \/ FilterExits =>
        queue'["filter"] = queue["filter"]
  BY <1>2, <1>3, <1>4, <1>5, <1>6, <1>9, <1>10 DEF FilterSees
<1>. QED
  BY <1>2, <1>3, <1>4, <1>5, <1>6, <1>7, <1>8, <1>11

LEMMA FilterSlice ==
  ASSUME TypeOK, SliceInv, Filter
  PROVE  SliceInv'
<1>1. flt \in Filters /\ Len(queue["filter"]) \in Nat
  BY RecordsOf, TwoQueues, QueueTypes
<1>2. flt.mapped \in Nat /\ flt.done \in Nat
  BY <1>1, QueueAssumption DEF Filters
<1>3. ASSUME flt.pc # "Frames" PROVE flt.mapped = 0 /\ flt.done = 0
  BY <1>2, <1>3 DEF SliceInv
<1>4. CASE FilterLoops
  <2>1. UNCHANGED queue
    BY <1>4 DEF FilterLoops, queues
  <2>. QED
    BY <1>1, <1>3, <1>4, <2>1, FilterMoves DEF FilterLoops, FilterKeeps, SliceInv
<1>5. CASE FilterMaps
  <2>1. flt.mapped = 0 /\ flt.done = 0
    BY <1>3, <1>5 DEF FilterMaps
  <2>2. CASE ReadNothing("filter") /\ flt'.mapped = flt.mapped
    <3>1. Len(queue'["filter"]) = 0
      BY <2>2, SkipIs, TwoQueues DEF ReadNothing
    <3>. QED
      BY <1>5, <2>1, <2>2, <3>1, FilterMoves DEF SliceInv
  <2>3. CASE flt'.mapped \in 1 .. Len(queue["filter"]) /\ UNCHANGED queue
              /\ readers' = readers \cup {"filter"}
    BY <1>1, <1>5, <2>1, <2>3, FilterMoves DEF SliceInv
  <2>. QED
    BY <1>5, <2>2, <2>3, FilterMoves
<1>6. CASE FilterSees
  <2>1. HasFrame /\ flt'.pc = "Frames" /\ flt'.mapped = flt.mapped /\ flt'.done = flt.done + 1
    BY <1>6, FilterSeesIs
  <2>2. UNCHANGED readers /\ queue'["filter"] = queue["filter"]
    BY <1>6, FilterQueues
  <2>. QED
    BY <1>1, <1>2, <2>1, <2>2 DEF SliceInv, HasFrame
<1>7. CASE FilterFails
  <2>1. queue'["filter"] = queue["filter"]
    BY <1>7, FilterQueues
  <2>. QED
    BY <1>1, <1>7, <2>1, FilterMoves DEF FilterFails, SliceInv
<1>8. CASE FilterUnmaps
  <2>1. Len(queue'["filter"]) \in Nat
    BY <1>1, <1>8, FilterQueues, ConsumeIs, TwoQueues
  <2>. QED
    BY <1>8, <2>1, FilterMoves DEF SliceInv
<1>9. CASE FilterResets
  BY <1>1, <1>3, <1>9, FilterMoves DEF FilterResets, FilterKeeps, SliceInv, queues
<1>10. CASE FilterExits
  <2>1. queue'["filter"] = queue["filter"] /\ UNCHANGED readers
    BY <1>10, FilterQueues
  <2>. QED
    BY <1>1, <1>3, <1>10, <2>1, FilterMoves DEF FilterExits, FilterKeeps, SliceInv
<1>. QED
  BY <1>4, <1>5, <1>6, <1>7, <1>8, <1>9, <1>10 DEF Filter, FilterSees


\* The sink takes from its queue only.
LEMMA SinkQueues ==
  ASSUME TypeOK, Sink
  PROVE  /\ queue'["filter"] = queue["filter"] /\ readers \subseteq readers'
         /\ Len(queue'["sink"]) \in Nat /\ Len(queue'["sink"]) <= Len(queue["sink"])
         /\ SinkAppends =>
              \E n \in 1 .. Len(queue["sink"]) :
                /\ stored' = stored \o SubSeq(queue["sink"], 1, n) /\ Consume("sink", n)
                /\ UNCHANGED skipped
         /\ SinkFindsNothing => Skip("sink") /\ UNCHANGED stored
         /\ SinkLoops \/ SinkFails \/ SinkExits => UNCHANGED <<queue, skipped, stored>>
<1>1. Len(queue["sink"]) \in Nat
  BY TwoQueues, QueueTypes
<1>2. SinkAppends =>
        \E n \in 1 .. Len(queue["sink"]) :
          /\ stored' = stored \o SubSeq(queue["sink"], 1, n) /\ Consume("sink", n)
          /\ UNCHANGED skipped
  BY DEF SinkAppends
<1>3. SinkFindsNothing => Skip("sink") /\ UNCHANGED stored
  BY DEF SinkFindsNothing, ReadNothing
<1>4. SinkLoops \/ SinkFails \/ SinkExits => UNCHANGED <<queue, skipped, stored>>
  BY DEF SinkLoops, SinkFails, SinkExits, queues
<1>5. readers \subseteq readers'
  BY DEF Sink, SinkLoops, SinkAppends, SinkFindsNothing, SinkFails, SinkExits, ReadNothing, queues
<1>6. /\ queue'["filter"] = queue["filter"]
      /\ Len(queue'["sink"]) \in Nat /\ Len(queue'["sink"]) <= Len(queue["sink"])
  <2>1. ASSUME NEW n \in 1 .. Len(queue["sink"]), Consume("sink", n)
        PROVE  /\ queue'["filter"] = queue["filter"]
               /\ Len(queue'["sink"]) \in Nat /\ Len(queue'["sink"]) <= Len(queue["sink"])
    <3>1. n \in 0 .. Len(queue["sink"]) /\ n \in Nat
      BY <1>1
    <3>. QED
      BY <1>1, <2>1, <3>1, ConsumeIs, TwoQueues
  <2>2. ASSUME Skip("sink")
        PROVE  /\ queue'["filter"] = queue["filter"]
               /\ Len(queue'["sink"]) \in Nat /\ Len(queue'["sink"]) <= Len(queue["sink"])
    BY <1>1, <2>2, SkipIs, TwoQueues
  <2>. QED
    BY <1>1, <1>2, <1>3, <1>4, <2>1, <2>2 DEF Sink
<1>. QED
  BY <1>2, <1>3, <1>4, <1>5, <1>6

LEMMA SinkSlice ==
  ASSUME TypeOK, SliceInv, Sink
  PROVE  SliceInv'
  BY SinkQueues DEF SliceInv, Sink

LEMMA ClientSlice ==
  ASSUME TypeOK, PhaseInv, SliceInv, Client
  PROVE  SliceInv'
<1>1. UNCHANGED <<queue, readers>>
  BY DEF Client, queues
<1>2. CASE StartFilter
  <2>1. flt.pc = "Exited" /\ flt.mapped \in Nat
    BY <1>2, RecordsOf, QueueAssumption DEF StartFilter, PhaseInv, Filters
  <2>. QED
    BY <1>1, <1>2, <2>1, StartFilterIs DEF SliceInv, FilterKeeps
<1>3. CASE UNCHANGED flt
  BY <1>1, <1>3 DEF SliceInv
<1>. QED
  BY <1>2, <1>3 DEF Client, StartSink, StartSource, StartFails, Configure, CallStop, AbortCloses,
    Joined

-------------------------------------------------------------------------------
(* Which frames travel, and their numbers.                                 *)

\* The source adds this frame, to the queue it has mapped.
LEMMA SourceElements ==
  ASSUME TypeOK, PhaseInv, Source
  PROVE  /\ \A q \in Queues :
              Elements(queue'[q]) \subseteq Elements(queue[q]) \cup {ThisFrame, Torn}
         /\ ~SourceWrites =>
              \A q \in Queues : Elements(queue'[q]) \subseteq Elements(queue[q]) \cup {Torn}
         /\ UNCHANGED <<stored, flt, phase, run, mishaps, enable_filter>>
              \/ (SourceFails /\ UNCHANGED <<stored, flt, phase, run, enable_filter>>)
<1>1. ASSUME NEW q \in Queues, src.out \in Queues, MapRegion("source", src.out)
      PROVE  Elements(queue'[q]) \subseteq Elements(queue[q])
  BY <1>1, MapRegionIs, TwoWriters, EmptyElements
<1>2. ASSUME NEW q \in Queues, src.out \in Queues, NEW f \in Frames,
             Commit("source", src.out, f)
      PROVE  Elements(queue'[q]) \subseteq Elements(queue[q]) \cup {f, Torn}
  <2>1. CASE q = src.out
    BY <1>2, <2>1, CommitAdds, TwoWriters
  <2>2. CASE q # src.out
    BY <1>2, <2>2, CommitAdds, TwoWriters
  <2>. QED
    BY <2>1, <2>2
<1>3. ~SourceWrites =>
        \A q \in Queues : Elements(queue'[q]) \subseteq Elements(queue[q]) \cup {Torn}
  <2>1. ASSUME SourceUnmaps, NEW q \in Queues
        PROVE  Elements(queue'[q]) \subseteq Elements(queue[q]) \cup {Torn}
    <3>1. src.out \in Queues /\ Commit("source", src.out, Torn)
      BY <2>1, SourceQueues
    <3>. QED
      BY <1>2, <3>1, TornIs
  <2>. QED
    BY <1>1, <2>1, SourceQueues
<1>4. SourceWrites =>
        \A q \in Queues : Elements(queue'[q]) \subseteq Elements(queue[q]) \cup {ThisFrame, Torn}
  BY <1>2, SourceQueues
<1>5. UNCHANGED <<stored, flt, phase, run, enable_filter>>
  BY DEF Source, setup
<1>6. UNCHANGED mishaps \/ SourceFails
  BY DEF Source, SourceLoops, SourceAwaits, SourceMaps, SourceWrites, SourceAborts,
    SourceUnmaps, SourceFinishes, SourceSignals, SourceExits
<1>. QED
  BY <1>3, <1>4, <1>5, <1>6

LEMMA SourceAloneAdds ==
  ASSUME TypeOK, PhaseInv, RegionInv, Source, NEW q \in Queues,
         q = "filter" \/ "switch" \notin mishaps
  PROVE  Elements(queue'[q]) \subseteq Elements(queue[q]) \cup (IF SourceWrites THEN {ThisFrame} ELSE {})
<1>1. CASE q # src.out
  BY <1>1, SourceQueues
<1>2. CASE q = src.out
  <2>1. src.out = "filter" \/ "switch" \notin mishaps
    BY <1>2
  <2>2. CASE SourceMaps
    BY <1>2, <2>2, SourceQueues, MapRegionIs, TwoWriters, EmptyElements
  <2>3. CASE SourceWrites
    <3>1. Puts(q, ThisFrame) /\ ThisFrame \in Frames
      BY <1>2, <2>1, <2>3, SourceAlone, SourceQueues
    <3>. QED
      BY <2>3, <3>1, PutsIs
  <2>4. CASE ~SourceMaps /\ ~SourceWrites
    BY <2>1, <2>4, SourceAlone
  <2>. QED
    BY <2>2, <2>3, <2>4
<1>. QED
  BY <1>1, <1>2

\* The filter publishes, and holds, sums of what it held and has read.
Summed == flt.acc \cup UNION Elements(queue["filter"])

LEMMA FilterElements ==
  ASSUME TypeOK, SliceInv, Filter
  PROVE  /\ Elements(queue'["filter"]) \subseteq Elements(queue["filter"])
         /\ \/ Elements(queue'["sink"]) \subseteq Elements(queue["sink"])
            \/ \E f : /\ f \subseteq Summed /\ Commits(f)
                      /\ Elements(queue'["sink"])
                           \subseteq Elements(queue["sink"]) \cup {f, Torn}
         /\ flt'.acc \subseteq Summed
         /\ UNCHANGED <<stored, src, phase, run, enable_filter>>
<1>1. HasFrame => NextFrame \subseteq Summed
  BY NextFrameIs DEF Summed
<1>2. flt.acc \subseteq Summed
  BY DEF Summed
<1>3. Elements(queue'["filter"]) \subseteq Elements(queue["filter"])
  <2>1. CASE FilterMaps
    BY <2>1, FilterMoves, SkipIs, EmptyElements, TwoQueues DEF ReadNothing
  <2>2. CASE FilterUnmaps
    BY <2>2, FilterQueues, ConsumeIs, TwoQueues
  <2>. QED
    BY <2>1, <2>2, FilterQueues DEF Filter, FilterSees
<1>4. flt'.acc \subseteq Summed
  <2>1. CASE FilterSees
    <3>1. flt'.acc \in {{}, NextFrame, flt.acc \cup NextFrame} /\ HasFrame
      BY <2>1, FilterSeesIs DEF FilterSees
    <3>. QED
      BY <3>1, <1>1, <1>2
  <2>2. CASE ~FilterSees
    <3>1. flt'.acc \in {{}, flt.acc}
      BY <2>2, FilterMoves DEF Filter, FilterSees
    <3>. QED
      BY <3>1, <1>2
  <2>. QED
    BY <2>1, <2>2
<1>5. \/ Elements(queue'["sink"]) \subseteq Elements(queue["sink"])
      \/ \E f : f \subseteq Summed /\ Commits(f)
  <2>1. CASE FilterMaps
    BY <2>1, FilterMoves, SkipIs, TwoQueues DEF ReadNothing
  <2>2. CASE FilterUnmaps
    BY <2>2, FilterQueues, ConsumeIs, TwoQueues
  <2>3. CASE FilterStartsWindow
    BY <2>3, FilterQueues, MapRegionIs, EmptyElements, TwoQueues, TwoWriters
  <2>4. CASE FilterAdds
    <3>1. flt.acc \cup NextFrame \subseteq Summed
      BY <2>4, <1>1, <1>2 DEF FilterAdds
    <3>. QED
      BY <2>4, <3>1, FilterQueues
  <2>5. CASE FilterFails \/ FilterExits
    BY <2>5, <1>2, FilterQueues
  <2>6. CASE FilterLoops \/ FilterResets \/ FilterDropsWindow
    BY <2>6, FilterQueues
  <2>. QED
    BY <2>1, <2>2, <2>3, <2>4, <2>5, <2>6 DEF Filter
<1>6. \A f : Commits(f) =>
        Elements(queue'["sink"]) \subseteq Elements(queue["sink"]) \cup {f, Torn}
  BY CommitsIs
<1>7. UNCHANGED <<stored, src, phase, run, enable_filter>>
  BY DEF Filter, setup
<1>. QED
  BY <1>3, <1>4, <1>5, <1>6, <1>7

LEMMA SinkElements ==
  ASSUME TypeOK, Sink
  PROVE  /\ Elements(stored') \cup Elements(queue'["sink"])
              \subseteq Elements(stored) \cup Elements(queue["sink"])
         /\ queue'["filter"] = queue["filter"]
         /\ UNCHANGED <<src, flt, phase, run, enable_filter>>
<1>1. ASSUME NEW n \in 1 .. Len(queue["sink"]),
             stored' = stored \o SubSeq(queue["sink"], 1, n), Consume("sink", n)
      PROVE  Elements(stored') \cup Elements(queue'["sink"])
               \subseteq Elements(stored) \cup Elements(queue["sink"])
  BY <1>1, AppendIs
<1>2. ASSUME Skip("sink"), UNCHANGED stored
      PROVE  Elements(stored') \cup Elements(queue'["sink"])
               \subseteq Elements(stored) \cup Elements(queue["sink"])
  BY <1>2, SkipIs, EmptyElements, TwoQueues
<1>3. UNCHANGED <<src, flt, phase, run, enable_filter>>
  BY DEF Sink, setup
<1>. QED
  BY <1>1, <1>2, <1>3, SinkQueues DEF Sink

LEMMA ClientElements ==
  ASSUME TypeOK, Client
  PROVE  /\ Elements(stored') \subseteq Elements(stored)
         /\ UNCHANGED <<queue, skipped, readers>> /\ flt'.acc = flt.acc
<1>1. UNCHANGED <<queue, skipped, readers>>
  BY DEF Client, queues
<1>2. stored' = <<>> \/ stored' = stored
  BY DEF Client, StartSink, StartFilter, StartSource, StartFails, Configure, CallStop,
    AbortCloses, Joined
<1>3. StartFilter \/ UNCHANGED flt
  BY DEF Client, StartSink, StartSource, StartFails, Configure, CallStop, AbortCloses, Joined
<1>. QED
  BY <1>1, <1>2, <1>3, EmptyElements, StartFilterIs

LEMMA SourceFrames ==
  ASSUME TypeOK, PhaseInv, RegionInv, FramesInv, Source
  PROVE  FramesInv'
<1>1. SourceWrites => \E i \in Ids : ThisFrame = {i}
  BY ThisFrameIs DEF SourceWrites
<1>2. SourceWrites => ThisFrame # Torn
  BY <1>1 DEF Torn
<1>3. UNCHANGED stored /\ ("switch" \notin mishaps' => "switch" \notin mishaps)
  BY DEF Source, SourceLoops, SourceAwaits, SourceMaps, SourceWrites, SourceAborts, SourceUnmaps,
    SourceFails, SourceFinishes, SourceSignals, SourceExits, Happens
<1>4. \A f \in Elements(queue'["filter"]) : \E i \in Ids : f = {i}
  <2>1. Elements(queue'["filter"])
          \subseteq Elements(queue["filter"]) \cup (IF SourceWrites THEN {ThisFrame} ELSE {})
    BY SourceAloneAdds, TwoQueues
  <2>. QED
    BY <1>1, <2>1 DEF FramesInv
<1>5. ASSUME "switch" \notin mishaps
      PROVE  Torn \notin Elements(queue'["sink"]) \cup Elements(stored)
  <2>1. Elements(queue'["sink"])
          \subseteq Elements(queue["sink"]) \cup (IF SourceWrites THEN {ThisFrame} ELSE {})
    BY <1>5, SourceAloneAdds, TwoQueues
  <2>. QED
    BY <1>2, <1>5, <2>1 DEF FramesInv
<1>. QED
  BY <1>3, <1>4, <1>5 DEF FramesInv

LEMMA FilterFrames ==
  ASSUME TypeOK, SliceInv, RegionInv, FramesInv, Filter
  PROVE  FramesInv'
<1>1. UNCHANGED stored /\ ("switch" \notin mishaps' => "switch" \notin mishaps)
  BY DEF Filter, FilterLoops, FilterMaps, FilterStartsWindow, FilterAdds, FilterDropsWindow,
    FilterFails, FilterUnmaps, FilterResets, FilterExits, Happens
<1>2. ASSUME "switch" \notin mishaps
      PROVE  Torn \notin Elements(queue'["sink"]) \cup Elements(stored)
  <2>1. CASE Elements(queue'["sink"]) \subseteq Elements(queue["sink"])
    BY <1>2, <2>1 DEF FramesInv
  <2>2. ASSUME NEW f, Commits(f)
        PROVE  Torn \notin Elements(queue'["sink"]) \cup Elements(stored)
    <3>1. f \in Frames /\ f # {} /\ Puts("sink", f)
      BY <1>2, <2>2, FilterAlone DEF Publishes
    <3>2. Elements(queue'["sink"]) \subseteq Elements(queue["sink"]) \cup {f}
      BY <3>1, PutsIs, TwoQueues
    <3>. QED
      BY <1>2, <3>1, <3>2 DEF FramesInv, Torn
  <2>. QED
    BY <2>1, <2>2, FilterElements
<1>. QED
  BY <1>1, <1>2, FilterElements DEF FramesInv

LEMMA SinkFrames ==
  ASSUME TypeOK, FramesInv, Sink
  PROVE  FramesInv'
<1>1. "switch" \notin mishaps' => "switch" \notin mishaps
  BY DEF Sink, SinkLoops, SinkAppends, SinkFindsNothing, SinkFails, SinkExits, Happens
<1>. QED
  BY <1>1, SinkElements DEF FramesInv

LEMMA ClientFrames ==
  ASSUME TypeOK, FramesInv, Client
  PROVE  FramesInv'
<1>1. "switch" \notin mishaps' => "switch" \notin mishaps
  BY DEF Client, StartSink, StartFilter, StartSource, StartFails, Configure, CallStop, AbortCloses,
    Joined, Happens, Lasting
<1>. QED
  BY <1>1, ClientElements DEF FramesInv

\* Frame numbers only grow.
LEMMA RunBase ==
  ASSUME NEW r \in Nat
  PROVE  /\ (r - 1) * MaxFrames \in Int
         /\ (r + 1 - 1) * MaxFrames = (r - 1) * MaxFrames + MaxFrames
  BY FramesAssumption

LEMMA NextIdIs ==
  ASSUME TypeOK
  PROVE  NextId \in Int
<1>1. src.iframe \in Nat
  BY RecordsOf, FramesAssumption DEF Sources
<1>. QED
  BY <1>1, RecordsOf, RunBase DEF NextId

LEMMA NextIdGrows ==
  ASSUME TypeOK, PhaseInv, Next
  PROVE  NextId' \in Int /\ NextId <= NextId'
<1>1. /\ src.iframe \in Nat /\ src.iframe <= MaxFrames /\ run \in Nat /\ MaxFrames \in Nat
  BY RecordsOf, FramesAssumption DEF Sources
<1>2. (run - 1) * MaxFrames \in Int
  BY <1>1, RunBase
<1>3. CASE Source
  <2>1. src'.iframe \in {src.iframe, src.iframe + 1} /\ UNCHANGED <<phase, run>>
    BY <1>3, SourceMoves DEF Source, setup
  <2>2. NextId' = (run - 1) * MaxFrames +
                    IF phase \in {"StartFilter", "StartSource"} THEN 0 ELSE src'.iframe
    BY <2>1 DEF NextId
  <2>. QED
    BY <1>1, <1>2, <2>1, <2>2 DEF NextId
<1>4. CASE Filter \/ Sink
  <2>1. UNCHANGED <<src, phase, run>>
    BY <1>4 DEF Filter, Sink, setup
  <2>2. NextId' = NextId
    BY <2>1 DEF NextId
  <2>. QED
    BY <2>2, NextIdIs
<1>5. CASE StartSink
  <2>1. phase' = "StartFilter" /\ run' = run + 1
    BY <1>5 DEF StartSink
  <2>4. NextId' = (run' - 1) * MaxFrames + 0
    BY <2>1 DEF NextId
  <2>2. NextId' = (run - 1) * MaxFrames + MaxFrames
    BY <1>1, <1>2, <2>1, <2>4, RunBase
  <2>3. NextId = (run - 1) * MaxFrames + src.iframe
    BY <1>5 DEF StartSink, NextId
  <2>. QED
    BY <1>1, <1>2, <2>2, <2>3
<1>6. CASE StartSource
  <2>1. NextId' = (run - 1) * MaxFrames + 0 /\ NextId = (run - 1) * MaxFrames + 0
    BY <1>6, StartSourceIs DEF StartSource, NextId
  <2>. QED
    BY <1>1, <1>2, <2>1
<1>7. CASE StartFilter \/ StartFails \/ Configure \/ CallStop \/ AbortCloses \/ Joined
  <2>1. UNCHANGED <<src, run>>
    BY <1>7 DEF StartFilter, StartFails, Configure, CallStop, AbortCloses, Joined
  <2>2. phase' \in {"StartFilter", "StartSource"} => phase \in {"StartFilter", "StartSource"}
    <3>1. StartFilter => phase = "StartFilter"
      BY DEF StartFilter
    <3>2. StartFails \/ CallStop \/ AbortCloses \/ Joined =>
            phase' \notin {"StartFilter", "StartSource"}
      BY DEF StartFails, CallStop, AbortCloses, Joined
    <3>3. Configure => phase' = phase
      BY DEF Configure
    <3>. QED
      BY <1>7, <3>1, <3>2, <3>3
  <2>3. NextId' = (run - 1) * MaxFrames +
                    IF phase' \in {"StartFilter", "StartSource"} THEN 0 ELSE src.iframe
    BY <2>1 DEF NextId
  <2>. QED
    BY <1>1, <1>2, <2>2, <2>3 DEF NextId
<1>. QED
  BY <1>3, <1>4, <1>5, <1>6, <1>7 DEF Next, Client

LEMMA IdsAre == Ids \subseteq Nat
  BY FramesAssumption, RunsAssumption DEF Ids

\* Every frame there is, in storage or on its way.
All == Elements(stored) \cup Elements(queue["sink"]) \cup Elements(queue["filter"])
         \cup {flt.acc}

LEMMA AllAre == TypeOK => All \subseteq SUBSET Nat
<1> SUFFICES ASSUME TypeOK PROVE All \subseteq SUBSET Nat
  OBVIOUS
<1>1. flt.acc \in Frames
  BY RecordsOf DEF Filters
<1>2. /\ Elements(stored) \subseteq Frames /\ Elements(queue["sink"]) \subseteq Frames
      /\ Elements(queue["filter"]) \subseteq Frames
  BY QueueTypes, TwoQueues, ElementsOf DEF TypeOK
<1>. QED
  BY <1>1, <1>2, IdsAre DEF All, Frames

LEMMA NextNumbers ==
  ASSUME TypeOK, PhaseInv, SliceInv, NumbersInv, Next
  PROVE  NumbersInv'
<1>1. NextId \in Int /\ NextId' \in Int /\ NextId <= NextId'
  BY NextIdIs, NextIdGrows
<1>2. \A f \in All : \A i \in f : i < NextId'
  <2>1. \A f \in All : \A i \in f : i \in Nat /\ i < NextId
    BY AllAre DEF NumbersInv, All
  <2>. QED
    BY <1>1, <2>1
<1>3. CASE Source
  <2>1. SourceWrites => \A i \in ThisFrame : i < NextId'
    <3> SUFFICES ASSUME SourceWrites
                 PROVE  (run - 1) * MaxFrames + src.iframe < NextId'
      BY DEF ThisFrame
    <3>1. /\ src.iframe \in Nat /\ (run - 1) * MaxFrames \in Int
          /\ src'.iframe = src.iframe + 1 /\ UNCHANGED <<phase, run>>
      BY <1>3, RecordsOf, RunBase, SourceMoves, FramesAssumption DEF Sources, Source, setup
    <3>2. phase \notin {"StartFilter", "StartSource"}
      BY DEF SourceWrites, PhaseInv
    <3>3. NextId' = (run - 1) * MaxFrames + (src.iframe + 1)
      BY <3>1, <3>2 DEF NextId
    <3>. QED
      BY <3>1, <3>3
  <2>2. All' \subseteq All \cup {Torn} \cup (IF SourceWrites THEN {ThisFrame} ELSE {})
    BY <1>3, SourceElements, TwoQueues DEF All
  <2>. QED
    BY <1>2, <2>1, <2>2 DEF NumbersInv, All, Torn
<1>4. CASE Filter
  <2>1. \A i \in Summed : i < NextId'
    BY <1>2 DEF Summed, All
  <2>2. \A f \in All' : f \in All \/ f \subseteq Summed
    BY <1>4, FilterElements DEF All, Torn
  <2>. QED
    BY <1>2, <2>1, <2>2 DEF NumbersInv, All
<1>5. CASE Sink
  <2>1. All' \subseteq All
    BY <1>5, SinkElements DEF All
  <2>. QED
    BY <1>2, <2>1 DEF NumbersInv, All
<1>6. CASE Client
  <2>1. All' \subseteq All
    BY <1>6, ClientElements DEF All
  <2>. QED
    BY <1>2, <2>1 DEF NumbersInv, All
<1>. QED
  BY <1>3, <1>4, <1>5, <1>6 DEF Next

-------------------------------------------------------------------------------
(* One queue is written to until averaging is switched.                    *)

LEMMA LastingStays ==
  ASSUME Next
  PROVE  /\ mishaps \cap Lasting \subseteq mishaps'
         /\ "switch" \notin mishaps' => UNCHANGED enable_filter
         /\ ~StartSink => mishaps \subseteq mishaps'
<1>1. Source => mishaps \subseteq mishaps' /\ UNCHANGED enable_filter
  BY DEF Source, SourceLoops, SourceAwaits, SourceMaps, SourceWrites, SourceAborts, SourceUnmaps,
    SourceFails, SourceFinishes, SourceSignals, SourceExits, setup, Happens
<1>2. Filter => mishaps \subseteq mishaps' /\ UNCHANGED enable_filter
  BY DEF Filter, FilterLoops, FilterMaps, FilterStartsWindow, FilterAdds, FilterDropsWindow,
    FilterFails, FilterUnmaps, FilterResets, FilterExits, setup, Happens
<1>3. Sink => mishaps \subseteq mishaps' /\ UNCHANGED enable_filter
  BY DEF Sink, SinkLoops, SinkAppends, SinkFindsNothing, SinkFails, SinkExits, setup, Happens
<1>4. Client => mishaps \cap Lasting \subseteq mishaps'
  BY DEF Client, StartSink, StartFilter, StartSource, StartFails, Configure, CallStop,
    AbortCloses, Joined, Happens
<1>5. Client => UNCHANGED enable_filter \/ "switch" \in mishaps'
  BY DEF Client, StartSink, StartFilter, StartSource, StartFails, Configure, CallStop,
    AbortCloses, Joined, Happens
<1>6. Client /\ ~StartSink => mishaps \subseteq mishaps'
  BY DEF Client, StartFilter, StartSource, StartFails, Configure, CallStop,
    AbortCloses, Joined, Happens
<1>. QED
  BY <1>1, <1>2, <1>3, <1>4, <1>5, <1>6 DEF Next

\* With nothing to read and nothing held, the filter has nothing to do.
LEMMA IdleStays ==
  ASSUME TypeOK, SliceInv, Filter, queue["filter"] = <<>>, flt.acc = {}
  PROVE  queue'["filter"] = <<>> /\ flt'.acc = {} /\ ~HasFrame /\ ~FilterFails
<1>1. Elements(queue["filter"]) = {} /\ Len(queue["filter"]) = 0
  BY EmptyElements, EmptyFrames
<1>2. flt'.acc = {}
  BY <1>1, FilterElements DEF Summed
<1>3. ~HasFrame /\ ~FilterFails
  BY <1>1, RecordsOf, QueueAssumption DEF SliceInv, HasFrame, FilterFails, Filters
<1>4. Elements(queue'["filter"]) = {} /\ queue' \in [Queues -> Seq(Frames)]
  <2>1. Elements(queue'["filter"]) = {}
    BY <1>1, FilterElements
  <2>2. queue' \in [Queues -> Seq(Frames)]
    <3>1. CASE FilterMaps
      BY <3>1, FilterMoves, SkipIs, TwoQueues DEF ReadNothing, TypeOK
    <3>2. CASE FilterUnmaps
      BY <3>2, FilterQueues, ConsumeIs, TwoQueues
    <3>3. CASE FilterLoops \/ FilterResets
      BY <3>3, FilterQueues DEF TypeOK
    <3>4. CASE FilterExits
      BY <3>4, FilterQueues DEF TypeOK
    <3>. QED
      BY <1>3, <3>1, <3>2, <3>3, <3>4, FilterSeesIs DEF Filter, FilterSees
  <2>. QED
    BY <2>1, <2>2
<1>. QED
  BY <1>2, <1>3, <1>4, ElementsOf, TwoQueues

LEMMA NextUnswitched ==
  ASSUME TypeOK, PhaseInv, SliceInv, UnswitchedInv, Next
  PROVE  UnswitchedInv'
<1> SUFFICES ASSUME "switch" \notin mishaps'
             PROVE  IF enable_filter' THEN src'.out \in {"none", "filter"}
                    ELSE /\ src'.out \in {"none", "sink"}
                         /\ queue'["filter"] = <<>> /\ flt'.acc = {}
  BY DEF UnswitchedInv
<1>1. "switch" \notin mishaps /\ UNCHANGED enable_filter
  BY LastingStays DEF Lasting
<1>2. src'.out \in {src.out, "none"} \/ SourceLoops
  <2>1. UNCHANGED src \/ Source \/ StartSource
    BY DEF Next, Filter, Sink, Client, StartSink, StartFilter, StartFails, Configure, CallStop,
      AbortCloses, Joined
  <2>. QED
    BY <2>1, SourceMoves, StartSourceIs
<1>3. SourceLoops => src'.out = IF enable_filter THEN "filter" ELSE "sink"
  BY SourceMoves
<1>4. CASE enable_filter
  BY <1>1, <1>2, <1>3, <1>4 DEF UnswitchedInv
<1>5. CASE ~enable_filter
  <2>1. src.out \in {"none", "sink"} /\ queue["filter"] = <<>> /\ flt.acc = {}
    BY <1>1, <1>5 DEF UnswitchedInv
  <2>2. src'.out \in {"none", "sink"}
    BY <1>2, <1>3, <1>5, <2>1
  <2>3. queue'["filter"] = <<>> /\ flt'.acc = {}
    <3>1. CASE Source
      BY <2>1, <3>1, SourceQueues, TwoQueues DEF Source
    <3>2. CASE Filter
      BY <2>1, <3>2, IdleStays
    <3>3. CASE Sink
      BY <2>1, <3>3, SinkQueues DEF Sink
    <3>4. CASE Client
      BY <2>1, <3>4, ClientElements
    <3>. QED
      BY <3>1, <3>2, <3>3, <3>4 DEF Next
  <2>. QED
    BY <1>1, <1>5, <2>2, <2>3
<1>. QED
  BY <1>4, <1>5

-------------------------------------------------------------------------------
(* Who has a region of a queue, and room for it.                           *)

Roomy == \A q \in Queues : mapped[q] # {} => Len(queue[q]) < QueueFrames

FilterRegion ==
  src.out = "filter" =>
    /\ src.pc = "Camera" => mapped["filter"] = {"source"}
    /\ src.pc = "Unmap" => mapped["filter"] = {}

SinkRegion ==
  "switch" \notin mishaps =>
    /\ src.pc = "Camera" /\ src.out = "sink" => mapped["sink"] = {"source"}
    /\ src.pc = "Unmap" /\ src.out = "sink" /\ is_accepting_writes => mapped["sink"] = {}
    /\ flt.acc # {} => mapped["sink"] = {"filter"}

LEMMA RegionIs ==
  /\ RegionInv <=> Roomy /\ FilterRegion /\ SinkRegion
  /\ RegionInv' <=> Roomy' /\ FilterRegion' /\ SinkRegion'
  BY DEF RegionInv, Roomy, FilterRegion, SinkRegion

\* A step on one queue leaves room in both, and no queue too long.
LEMMA RoomOf ==
  ASSUME TypeOK, Roomy, NEW q \in Queues,
         \A p \in Queues : p # q => queue'[p] = queue[p] /\ mapped'[p] = mapped[p],
         \/ Len(queue'[q]) \in Nat /\ Len(queue'[q]) < QueueFrames
         \/ /\ Len(queue'[q]) \in Nat /\ Len(queue'[q]) <= Len(queue[q])
            /\ mapped'[q] \in {{}, mapped[q]}
         \/ Len(queue'[q]) = Len(queue[q]) + 1 /\ mapped[q] # {} /\ mapped'[q] = {}
  PROVE  Roomy' /\ \A p \in Queues : Len(queue'[p]) <= QueueFrames
<1>1. \A p \in Queues : Len(queue[p]) \in Nat /\ Len(queue[p]) <= QueueFrames
  BY QueueTypes DEF TypeOK
<1>2. QueueFrames \in Nat
  BY QueueAssumption
<1>3. (mapped'[q] # {} => Len(queue'[q]) < QueueFrames) /\ Len(queue'[q]) <= QueueFrames
  BY <1>1, <1>2 DEF Roomy
<1>. QED
  BY <1>1, <1>3 DEF Roomy

LEMMA SourceRoom ==
  ASSUME TypeOK, PhaseInv, Roomy, Source
  PROVE  Roomy' /\ \A q \in Queues : Len(queue'[q]) <= QueueFrames
<1>1. CASE UNCHANGED <<queue, mapped>>
  BY <1>1 DEF Roomy, TypeOK
<1>2. CASE src.out \in Queues /\ MapRegion("source", src.out)
  <2>1. /\ \A p \in Queues : p # src.out => queue'[p] = queue[p] /\ mapped'[p] = mapped[p]
        /\ Len(queue'[src.out]) \in Nat /\ Len(queue'[src.out]) < QueueFrames
    BY <1>2, MapRegionIs, TwoWriters, LenProperties DEF TypeOK
  <2>. QED
    BY <1>2, <2>1, RoomOf
<1>3. CASE src.out \in Queues /\ \E f \in Frames : Commit("source", src.out, f)
  <2>1. /\ \A p \in Queues : p # src.out => queue'[p] = queue[p] /\ mapped'[p] = mapped[p]
        /\ \/ Len(queue'[src.out]) = Len(queue[src.out]) /\ mapped'[src.out] = mapped[src.out]
           \/ /\ Len(queue'[src.out]) = Len(queue[src.out]) + 1
              /\ mapped[src.out] # {} /\ mapped'[src.out] = {}
    BY <1>3, CommitAdds, TwoWriters
  <2>2. Len(queue[src.out]) \in Nat
    BY <1>3, QueueTypes
  <2>. QED
    BY <1>3, <2>1, <2>2, RoomOf
<1>4. CASE SourceAborts
  <2>1. src.out \in Queues /\ UNCHANGED queue
    BY <1>4, RecordsOf DEF SourceAborts, PhaseInv, Sources
  <2>2. /\ \A p \in Queues : p # src.out => mapped'[p] = mapped[p]
        /\ mapped'[src.out] \in {{}, mapped[src.out]}
    BY <1>4, <2>1, AbortIs DEF SourceAborts
  <2>3. Len(queue[src.out]) \in Nat
    BY <2>1, QueueTypes
  <2>. QED
    BY <2>1, <2>2, <2>3, RoomOf
<1>5. ~SourceMaps /\ ~SourceWrites /\ ~SourceUnmaps /\ ~SourceAborts => UNCHANGED <<queue, mapped>>
  BY DEF Source, SourceLoops, SourceAwaits, SourceFails, SourceFinishes, SourceSignals,
    SourceExits, queues
<1>. QED
  BY <1>1, <1>2, <1>3, <1>4, <1>5, SourceQueues, TornIs

LEMMA FilterMarks ==
  ASSUME TypeOK, SliceInv, Filter
  PROVE  /\ mapped'["filter"] = mapped["filter"]
         /\ ~FilterStartsWindow => mapped'["sink"] \in {{}, mapped["sink"]}
         /\ FilterStartsWindow =>
              \/ mapped'["sink"] = {"filter"} \cup Holding("sink") /\ MapRegion("filter", "sink")
              \/ UNCHANGED <<queue, mapped>> /\ flt'.acc = {}
         /\ ~FilterStartsWindow /\ (flt.acc = {} \/ flt'.acc # {}) => UNCHANGED mapped
<1> DEFINE Fine == mapped'["filter"] = mapped["filter"] /\ mapped'["sink"] \in {{}, mapped["sink"]}
<1>1. mapped \in [Queues -> SUBSET Writers]
  BY DEF TypeOK, Writers
<1>2. UNCHANGED mapped => Fine
  OBVIOUS
<1>3. \A f : Commits(f) => Fine /\ flt.acc # {}
  BY CommitsIs DEF Commits
<1>4. AbortWrite("sink") => Fine
  BY AbortIs, TwoQueues
<1>5. CASE FilterStartsWindow
  <2>1. CASE MapRegion("filter", "sink")
    <3>1. mapped' = [mapped EXCEPT !["sink"] = {"filter"} \cup Holding("sink")]
      BY <2>1 DEF MapRegion
    <3>2. /\ mapped'["filter"] = mapped["filter"]
          /\ mapped'["sink"] = {"filter"} \cup Holding("sink")
      BY <1>1, <3>1, TwoQueues
    <3>. QED
      BY <1>5, <2>1, <3>2
  <2>2. CASE UNCHANGED <<queue, mapped, skipped>> /\ flt'.acc = {}
    BY <1>5, <2>2
  <2>. QED
    BY <1>5, <2>1, <2>2, FilterQueues
<1>6. CASE FilterAdds
  <2>1. ~FilterStartsWindow /\ flt.acc # {}
    BY <1>6 DEF FilterStartsWindow, FilterAdds
  <2>. QED
    BY <1>2, <1>3, <1>6, <2>1, FilterQueues
<1>7. CASE FilterDropsWindow
  <2>1. ~FilterStartsWindow /\ flt.acc # {} /\ flt'.acc = {} /\ AbortWrite("sink")
    BY <1>7, FilterSeesIs DEF FilterSees, FilterStartsWindow, FilterDropsWindow
  <2>. QED
    BY <1>4, <2>1
<1>8. CASE FilterFails
  <2>1. flt.acc # {} /\ flt'.acc = {} /\ Commits(flt.acc)
    BY <1>8, FilterQueues, FilterMoves DEF FilterFails
  <2>2. ~FilterStartsWindow
    BY <2>1 DEF FilterStartsWindow
  <2>. QED
    BY <1>3, <2>1, <2>2
<1>9. CASE FilterExits
  <2>1. flt'.acc = {} /\ (Commits(flt.acc) \/ (flt.acc = {} /\ UNCHANGED mapped))
    BY <1>9, FilterQueues, FilterMoves
  <2>2. ~FilterStartsWindow
    BY <1>9 DEF FilterStartsWindow, FilterExits, HasFrame
  <2>. QED
    BY <1>2, <1>3, <2>1, <2>2
<1>10. CASE FilterResets
  <2>1. ~FilterStartsWindow
    BY <1>10 DEF FilterStartsWindow, FilterResets, HasFrame
  <2>2. CASE sig_accumulator_reset /\ flt.acc # {}
    <3>1. AbortWrite("sink") /\ flt'.acc = {}
      BY <1>10, <2>2, FilterMoves DEF FilterResets
    <3>. QED
      BY <1>4, <2>1, <2>2, <3>1
  <2>3. CASE ~(sig_accumulator_reset /\ flt.acc # {})
    BY <1>2, <1>10, <2>1, <2>3 DEF FilterResets
  <2>. QED
    BY <2>2, <2>3
<1>11. CASE FilterLoops \/ FilterMaps \/ FilterUnmaps
  <2>1. UNCHANGED mapped
    BY <1>11 DEF FilterLoops, FilterMaps, FilterUnmaps, queues
  <2>2. flt.done \in Nat /\ flt.mapped \in Nat
    BY RecordsOf, QueueAssumption DEF Filters
  <2>3. flt.pc # "Frames" \/ flt.done = flt.mapped
    BY <1>11 DEF FilterLoops, FilterMaps, FilterUnmaps
  <2>4. ~HasFrame
    BY <2>2, <2>3 DEF HasFrame
  <2>. QED
    BY <1>2, <2>1, <2>4 DEF FilterStartsWindow
<1>. QED
  BY <1>5, <1>6, <1>7, <1>8, <1>9, <1>10, <1>11 DEF Filter

LEMMA FilterRoom ==
  ASSUME TypeOK, SliceInv, Roomy, Filter
  PROVE  Roomy' /\ \A q \in Queues : Len(queue'[q]) <= QueueFrames
<1>1. Len(queue["filter"]) \in Nat /\ Len(queue["sink"]) \in Nat
  BY QueueTypes, TwoQueues
<1>2. CASE FilterMaps \/ FilterUnmaps
  <2>1. /\ queue'["sink"] = queue["sink"]
        /\ Len(queue'["filter"]) \in Nat /\ Len(queue'["filter"]) <= Len(queue["filter"])
    <3>1. CASE Skip("filter") \/ UNCHANGED queue
      BY <1>1, <3>1, SkipIs, TwoQueues
    <3>2. CASE flt.mapped \in 0 .. Len(queue["filter"]) /\ Consume("filter", flt.mapped)
      BY <1>1, <3>2, ConsumeIs, TwoQueues
    <3>. QED
      BY <1>2, <3>1, <3>2, FilterMoves, FilterQueues DEF ReadNothing
  <2>2. UNCHANGED mapped
    BY <1>2 DEF FilterMaps, FilterUnmaps
  <2>. QED
    BY <2>1, <2>2, RoomOf DEF Queues
<1>3. CASE ~FilterMaps /\ ~FilterUnmaps
  <2>1. queue'["filter"] = queue["filter"] /\ mapped'["filter"] = mapped["filter"]
    BY <1>3, FilterQueues, FilterMarks DEF Filter, FilterSees
  <2>2. CASE MapRegion("filter", "sink")
    <3>1. Len(queue'["sink"]) \in Nat /\ Len(queue'["sink"]) < QueueFrames
      BY <2>2, MapRegionIs, TwoQueues, TwoWriters, LenProperties
    <3>. QED
      BY <2>1, <3>1, RoomOf DEF Queues
  <2>3. CASE \E f : Commits(f)
    <3>1. \/ Len(queue'["sink"]) = Len(queue["sink"]) /\ mapped'["sink"] = mapped["sink"]
          \/ /\ Len(queue'["sink"]) = Len(queue["sink"]) + 1
             /\ mapped["sink"] # {} /\ mapped'["sink"] = {}
      BY <2>3, CommitAdds, TwoQueues, TwoWriters DEF Commits
    <3>. QED
      BY <1>1, <2>1, <3>1, RoomOf DEF Queues
  <2>4. CASE UNCHANGED queue /\ mapped'["sink"] \in {{}, mapped["sink"]}
    BY <1>1, <2>1, <2>4, RoomOf DEF Queues
  <2>5. \/ MapRegion("filter", "sink") \/ \E f : Commits(f)
        \/ UNCHANGED queue /\ mapped'["sink"] \in {{}, mapped["sink"]}
    <3>1. FilterStartsWindow => MapRegion("filter", "sink") \/ UNCHANGED <<queue, mapped>>
      BY FilterMarks
    <3>2. ~FilterStartsWindow => mapped'["sink"] \in {{}, mapped["sink"]}
      BY FilterMarks
    <3>3. ~FilterStartsWindow => UNCHANGED queue \/ \E f : Commits(f)
      BY <1>3, FilterQueues DEF Filter
    <3>. QED
      BY <3>1, <3>2, <3>3
  <2>. QED
    BY <2>2, <2>3, <2>4, <2>5
<1>. QED
  BY <1>2, <1>3

LEMMA SinkRoom ==
  ASSUME TypeOK, Roomy, Sink
  PROVE  Roomy' /\ \A q \in Queues : Len(queue'[q]) <= QueueFrames
<1>1. UNCHANGED mapped
  BY DEF Sink, SinkLoops, SinkAppends, SinkFindsNothing, SinkFails, SinkExits, queues
<1>2. queue'["filter"] = queue["filter"]
      /\ Len(queue'["sink"]) \in Nat /\ Len(queue'["sink"]) <= Len(queue["sink"])
  BY SinkQueues
<1>. QED
  BY <1>1, <1>2, RoomOf DEF Queues

LEMMA NextRoom ==
  ASSUME TypeOK, PhaseInv, SliceInv, Roomy, Next
  PROVE  Roomy' /\ \A q \in Queues : Len(queue'[q]) <= QueueFrames
<1>1. Client => UNCHANGED <<queue, mapped>>
  BY DEF Client, queues
<1>2. Client => Roomy' /\ \A q \in Queues : Len(queue'[q]) <= QueueFrames
  BY <1>1 DEF Roomy, TypeOK
<1>. QED
  BY <1>2, SourceRoom, FilterRoom, SinkRoom DEF Next

\* The source's region is its own as long as the filter holds none.
LEMMA SourceRegion ==
  ASSUME TypeOK, PhaseInv, RegionInv, UnswitchedInv, Source
  PROVE  FilterRegion' /\ SinkRegion'
<1>1. UNCHANGED <<flt, is_accepting_writes>> /\ mapped \in [Queues -> SUBSET Writers]
      /\ FilterRegion /\ SinkRegion
  BY RegionIs DEF Source, setup, TypeOK, Writers
<1>2. ~SourceLoops => src'.out = src.out
  BY SourceMoves
<1>3. "switch" \notin mishaps' => "switch" \notin mishaps
  BY DEF Source, SourceLoops, SourceAwaits, SourceMaps, SourceWrites, SourceAborts, SourceUnmaps,
    SourceFails, SourceFinishes, SourceSignals, SourceExits, Happens
<1>4. "switch" \notin mishaps /\ src.out = "sink" => flt.acc = {}
  BY DEF UnswitchedInv
<1>5. "switch" \notin mishaps /\ flt.acc # {} => src.out # "sink" /\ enable_filter
  BY DEF UnswitchedInv
<1>6. CASE SourceMaps /\ src'.pc = "Camera" /\ src.out \in Queues
           /\ MapRegion("source", src.out)
  <2>1. src'.out = src.out /\ src.pc = "Map"
    BY <1>2, <1>6 DEF SourceMaps, SourceLoops
  <2>2. mapped'[src.out] = {"source"} \cup Holding(src.out)
        /\ \A p \in Queues : p # src.out => mapped'[p] = mapped[p]
    BY <1>1, <1>6 DEF MapRegion
  <2>3. Holding("filter") = {}
    BY <2>1 DEF Holding
  <2>4. flt.acc = {} => Holding("sink") = {}
    BY <2>1 DEF Holding
  <2>5. FilterRegion'
    BY <1>6, <2>1, <2>2, <2>3 DEF FilterRegion
  <2>6. SinkRegion'
    BY <1>1, <1>3, <1>4, <1>6, <2>1, <2>2, <2>4, TwoQueues DEF SinkRegion
  <2>. QED
    BY <2>5, <2>6
<1>7. CASE SourceAborts
  <2>1. src'.out = src.out /\ src'.pc = "Unmap" /\ src.out \in Queues
    BY <1>2, <1>7, SourceGoes, RecordsOf DEF SourceAborts, SourceLoops, PhaseInv, Sources
  <2>2. /\ \A p \in Queues : p # src.out => mapped'[p] = mapped[p]
        /\ Accepts(src.out) => mapped'[src.out] = {}
    BY <1>7, <2>1, AbortIs DEF SourceAborts
  <2>3. Accepts("filter") /\ (is_accepting_writes => Accepts("sink"))
    BY DEF Accepts
  <2>4. FilterRegion'
    BY <2>1, <2>2, <2>3 DEF FilterRegion
  <2>5. SinkRegion'
    BY <1>1, <1>3, <1>4, <2>1, <2>2, <2>3, TwoQueues DEF SinkRegion
  <2>. QED
    BY <2>4, <2>5
<1>8. CASE SourceWrites \/ SourceUnmaps
  <2>1. src'.out = src.out /\ src'.pc = "Top" /\ src.out \in Queues
        /\ \E f \in Frames : Commit("source", src.out, f)
    BY <1>8, SourceMoves, SourceGoes, SourceQueues, TornIs DEF SourceUnmaps, SourceLoops
  <2>2. \A p \in Queues : p # src.out => mapped'[p] = mapped[p]
    BY <2>1, CommitAdds, TwoWriters
  <2>. QED
    BY <1>1, <1>3, <1>4, <2>1, <2>2, TwoQueues DEF FilterRegion, SinkRegion
<1>9. CASE UNCHANGED mapped /\ src'.pc \notin {"Camera", "Unmap"}
  BY <1>1, <1>3, <1>9 DEF FilterRegion, SinkRegion
<1>10. SourceMaps \/ SourceAborts \/ SourceWrites \/ SourceUnmaps
         \/ (UNCHANGED mapped /\ src'.pc \notin {"Camera", "Unmap"})
  <2>1. SourceLoops \/ SourceAwaits \/ SourceFails \/ SourceFinishes \/ SourceSignals
          \/ SourceExits => UNCHANGED mapped
    BY DEF SourceLoops, SourceAwaits, SourceFails, SourceFinishes, SourceSignals, SourceExits,
      queues
  <2>2. SourceLoops \/ SourceAwaits \/ SourceFails \/ SourceFinishes \/ SourceSignals
          \/ SourceExits => src'.pc \notin {"Camera", "Unmap"}
    BY SourceMoves, SourceGoes
  <2>. QED
    BY <2>1, <2>2 DEF Source
<1>. QED
  BY <1>6, <1>7, <1>8, <1>9, <1>10, SourceQueues

LEMMA FilterRegionStep ==
  ASSUME TypeOK, SliceInv, RegionInv, UnswitchedInv, Filter
  PROVE  FilterRegion' /\ SinkRegion'
<1>1. UNCHANGED <<src, is_accepting_writes>> /\ FilterRegion /\ SinkRegion
  BY RegionIs DEF Filter, setup
<1>2. mapped'["filter"] = mapped["filter"]
  BY FilterMarks
<1>3. FilterRegion'
  BY <1>1, <1>2 DEF FilterRegion
<1> SUFFICES ASSUME "switch" \notin mishaps'
             PROVE  /\ src.pc = "Camera" /\ src.out = "sink" => mapped'["sink"] = {"source"}
                    /\ src.pc = "Unmap" /\ src.out = "sink" /\ is_accepting_writes =>
                         mapped'["sink"] = {}
                    /\ flt'.acc # {} => mapped'["sink"] = {"filter"}
  BY <1>1, <1>3 DEF SinkRegion
<1>4. "switch" \notin mishaps
  BY DEF Filter, FilterLoops, FilterMaps, FilterStartsWindow, FilterAdds, FilterDropsWindow,
    FilterFails, FilterUnmaps, FilterResets, FilterExits, Happens
<1>5. CASE FilterStartsWindow
  <2>1. HasFrame /\ flt.acc = {}
    BY <1>5 DEF FilterStartsWindow
  <2>2. queue["filter"] # <<>>
    BY <2>1, NextFrameIs, EmptyFrames
  <2>3. src.out # "sink"
    BY <1>4, <2>2 DEF UnswitchedInv
  <2>4. Holding("sink") = {}
    BY <2>1, <2>3 DEF Holding
  <2>. QED
    BY <1>5, <2>3, <2>4, FilterMarks
<1>6. CASE ~FilterStartsWindow
  <2>1. CASE src.out = "sink"
    <3>1. flt.acc = {}
      BY <1>4, <2>1 DEF UnswitchedInv
    <3>2. UNCHANGED mapped
      BY <1>6, <3>1, FilterMarks
    <3>3. flt'.acc = {}
      BY <1>4, <2>1, <3>1, IdleStays DEF UnswitchedInv
    <3>. QED
      BY <1>1, <1>4, <3>2, <3>3 DEF SinkRegion
  <2>2. CASE src.out # "sink"
    <3>1. flt'.acc # {} => flt.acc # {}
      BY <1>6, FilterMoves, FilterSeesIs DEF Filter, FilterSees
    <3>2. flt'.acc # {} => UNCHANGED mapped
      BY <1>6, FilterMarks
    <3>. QED
      BY <1>1, <1>4, <2>2, <3>1, <3>2 DEF SinkRegion
  <2>. QED
    BY <2>1, <2>2
<1>. QED
  BY <1>5, <1>6

LEMMA NextRegion ==
  ASSUME TypeOK, PhaseInv, SliceInv, RegionInv, UnswitchedInv, Next
  PROVE  RegionInv'
<1>1. Roomy'
  BY NextRoom, RegionIs
<1>2. CASE Sink
  <2>1. UNCHANGED <<mapped, src, flt, is_accepting_writes>>
    BY <1>2 DEF Sink, SinkLoops, SinkAppends, SinkFindsNothing, SinkFails, SinkExits, queues, setup
  <2>2. "switch" \notin mishaps' => "switch" \notin mishaps
    BY <1>2 DEF Sink, SinkLoops, SinkAppends, SinkFindsNothing, SinkFails, SinkExits, Happens
  <2>. QED
    BY <1>1, <2>1, <2>2, RegionIs DEF FilterRegion, SinkRegion
<1>3. CASE Client
  <2>1. UNCHANGED mapped /\ flt'.acc = flt.acc
    BY <1>3, ClientElements DEF Client, queues
  <2>2. "switch" \notin mishaps' => "switch" \notin mishaps
    BY LastingStays DEF Lasting
  <2>3. CASE StartSource
    <3>1. src'.pc = "Top" /\ UNCHANGED is_accepting_writes
      BY <2>3, StartSourceIs DEF StartSource
    <3>. QED
      BY <1>1, <2>1, <2>2, <3>1, RegionIs DEF FilterRegion, SinkRegion
  <2>4. CASE StartSink \/ Joined
    <3>1. src.pc = "Exited" /\ UNCHANGED src
      BY <2>4 DEF StartSink, Joined, PhaseInv
    <3>. QED
      BY <1>1, <2>1, <2>2, <3>1, RegionIs DEF FilterRegion, SinkRegion
  <2>5. CASE StartFilter \/ StartFails \/ Configure \/ CallStop \/ AbortCloses
    <3>1. UNCHANGED src
      BY <2>5 DEF StartFilter, StartFails, Configure, CallStop, AbortCloses
    <3>2. is_accepting_writes' = FALSE \/ UNCHANGED is_accepting_writes
      BY <2>5 DEF StartFilter, StartFails, Configure, CallStop, AbortCloses
    <3>. QED
      BY <1>1, <2>1, <2>2, <3>1, <3>2, RegionIs DEF FilterRegion, SinkRegion
  <2>. QED
    BY <1>3, <2>3, <2>4, <2>5 DEF Client
<1>. QED
  BY <1>1, <1>2, <1>3, SourceRegion, FilterRegionStep, RegionIs DEF Next

-------------------------------------------------------------------------------
(* Stop signals.                                                           *)

FilterStops == is_stopping["filter"] \/ flt.last \/ flt.pc \in {"Publish", "Exited"}
SinkStops == is_stopping["sink"] \/ snk \in {"Flush", "Stop", "Exited"}

LEMMA StoreIs ==
  ASSUME TypeOK, NEW t \in Threads, NEW v, Store(is_stopping, t, v)
  PROVE  /\ is_stopping'[t] = v
         /\ \A u \in Threads : u # t => is_stopping'[u] = is_stopping[u]
  BY DEF Store, TypeOK

LEMMA ThreeThreads == "source" \in Threads /\ "filter" \in Threads /\ "sink" \in Threads
  BY DEF Threads

\* But for their start, the filter and the sink never forget a signal.
LEMMA SignalsStay ==
  ASSUME TypeOK, PhaseInv, Next
  PROVE  /\ ~StartFilter => (FilterStops => FilterStops')
         /\ ~StartSink => (SinkStops => SinkStops')
<1>1. CASE Source
  <2>1. UNCHANGED <<flt, snk>>
    BY <1>1 DEF Source
  <2>2. \A t \in {"filter", "sink"} : is_stopping'[t] \in {is_stopping[t], TRUE}
    <3>1. UNCHANGED is_stopping \/ SourceSignals \/ SourceExits
      BY <1>1 DEF Source, SourceLoops, SourceAwaits, SourceMaps, SourceWrites, SourceAborts,
        SourceUnmaps, SourceFails, SourceFinishes, flags
    <3>2. SourceExits => Store(is_stopping, "source", FALSE)
      BY DEF SourceExits, Finish
    <3>3. SourceSignals => Store(is_stopping, "filter", TRUE) \/ Store(is_stopping, "sink", TRUE)
      BY DEF SourceSignals
    <3>4. \A u \in {"filter", "sink"} :
            Store(is_stopping, u, TRUE) =>
              \A t \in {"filter", "sink"} : is_stopping'[t] \in {is_stopping[t], TRUE}
      BY StoreIs, ThreeThreads
    <3>5. Store(is_stopping, "source", FALSE) =>
            \A t \in {"filter", "sink"} : is_stopping'[t] = is_stopping[t]
      BY StoreIs, ThreeThreads
    <3>. QED
      BY <3>1, <3>2, <3>3, <3>4, <3>5
  <2>. QED
    BY <2>1, <2>2 DEF FilterStops, SinkStops
<1>2. CASE Filter
  <2>1. UNCHANGED snk /\ (UNCHANGED is_stopping \/ FilterExits)
    BY <1>2 DEF Filter, FilterLoops, FilterMaps, FilterStartsWindow, FilterAdds,
      FilterDropsWindow, FilterFails, FilterUnmaps, FilterResets, flags
  <2>2. FilterExits => is_stopping'["sink"] = is_stopping["sink"]
    BY StoreIs, ThreeThreads DEF FilterExits, Finish
  <2>3. FilterStops => FilterStops'
    <3>1. CASE FilterSees
      <4>1. flt.pc = "Frames" /\ flt'.last = flt.last /\ UNCHANGED is_stopping
        BY <3>1, FilterSeesIs DEF HasFrame, FilterSees, FilterStartsWindow, FilterAdds,
          FilterDropsWindow, flags
      <4>. QED
        BY <4>1 DEF FilterStops
    <3>2. CASE FilterLoops
      BY <3>2, FilterMoves DEF FilterLoops, FilterStops, PhaseInv
    <3>3. CASE FilterMaps \/ FilterUnmaps
      <4>1. flt.pc \notin {"Publish", "Exited"} /\ flt'.last = flt.last /\ UNCHANGED is_stopping
        BY <3>3, FilterMoves DEF FilterMaps, FilterUnmaps, flags
      <4>. QED
        BY <4>1 DEF FilterStops
    <3>4. CASE FilterFails \/ FilterExits
      <4>1. flt'.pc \in {"Publish", "Exited"}
        BY <3>4, FilterMoves
      <4>. QED
        BY <4>1 DEF FilterStops
    <3>5. CASE FilterResets
      <4>1. flt.pc = "Reset" /\ flt'.last = flt.last /\ UNCHANGED is_stopping
        BY <3>5, FilterMoves DEF FilterResets, flags
      <4>. QED
        BY <4>1 DEF FilterStops
    <3>. QED
      BY <1>2, <3>1, <3>2, <3>3, <3>4, <3>5 DEF Filter, FilterSees
  <2>. QED
    BY <2>1, <2>2, <2>3 DEF SinkStops
<1>3. CASE Sink
  <2>1. UNCHANGED flt /\ (UNCHANGED is_stopping \/ SinkFails \/ SinkExits)
    BY <1>3 DEF Sink, SinkLoops, SinkAppends, SinkFindsNothing, flags
  <2>2. SinkFails \/ SinkExits => is_stopping'["filter"] = is_stopping["filter"]
    BY StoreIs, ThreeThreads DEF SinkFails, SinkExits, Finish
  <2>3. SinkStops => SinkStops'
    <3>1. SinkFails \/ SinkExits => snk' \in {"Stop", "Exited"}
      BY DEF SinkFails, SinkExits
    <3>2. SinkLoops \/ SinkAppends \/ SinkFindsNothing => (SinkStops => SinkStops')
      BY DEF SinkLoops, SinkAppends, SinkFindsNothing, Reading, SinkStops, flags
    <3>. QED
      BY <1>3, <3>1, <3>2 DEF Sink, SinkStops
  <2>. QED
    BY <2>1, <2>2, <2>3 DEF FilterStops
<1>4. CASE Client
  <2>1. StartSink => UNCHANGED flt /\ is_stopping'["filter"] = is_stopping["filter"]
    BY LaunchIs, ThreeThreads DEF StartSink
  <2>2. StartFilter => UNCHANGED snk /\ is_stopping'["sink"] = is_stopping["sink"]
    BY LaunchIs, ThreeThreads DEF StartFilter
  <2>3. StartSource => /\ UNCHANGED <<flt, snk>> /\ is_stopping'["sink"] = is_stopping["sink"]
                       /\ is_stopping'["filter"] = is_stopping["filter"]
    BY LaunchIs, ThreeThreads DEF StartSource
  <2>4. CallStop => /\ UNCHANGED <<flt, snk>> /\ is_stopping'["sink"] = is_stopping["sink"]
                    /\ is_stopping'["filter"] = is_stopping["filter"]
    BY StoreIs, ThreeThreads DEF CallStop
  <2>5. StartFails \/ Configure \/ AbortCloses \/ Joined => UNCHANGED <<flt, snk, is_stopping>>
    BY DEF StartFails, Configure, AbortCloses, Joined, flags
  <2>. QED
    BY <1>4, <2>1, <2>2, <2>3, <2>4, <2>5 DEF Client, FilterStops, SinkStops
<1>. QED
  BY <1>1, <1>2, <1>3, <1>4 DEF Next

LEMMA NextSignals ==
  ASSUME TypeOK, PhaseInv, SignalsInv, Next
  PROVE  SignalsInv'
<1> SUFFICES ASSUME Started', "start" \notin mishaps'
             PROVE  /\ src'.pc \in {"SigSink", "Clear", "Exited"} => FilterStops'
                    /\ src'.pc \in {"Clear", "Exited"} => SinkStops'
  BY DEF SignalsInv, Started, FilterStops, SinkStops
<1>1. ~StartSink /\ ~StartFilter /\ ~StartFails
  BY DEF StartSink, StartFilter, StartFails, Happens, Started
<1>2. "start" \notin mishaps
  BY <1>1, LastingStays
<1>3. (FilterStops => FilterStops') /\ (SinkStops => SinkStops')
  BY <1>1, SignalsStay
<1>4. CASE Source
  <2>1. Started
    BY <1>4 DEF Source, setup, Started
  <2>2. /\ src.pc \in {"SigSink", "Clear", "Exited"} => FilterStops
        /\ src.pc \in {"Clear", "Exited"} => SinkStops
    BY <1>2, <2>1 DEF SignalsInv, Started, FilterStops, SinkStops
  <2>3. CASE SourceSignals
    BY <1>3, <2>2, <2>3, SourceGoes, StoreIs, ThreeThreads DEF FilterStops, SinkStops
  <2>4. CASE SourceExits
    <3>1. src.pc = "Clear"
      BY <2>4 DEF SourceExits
    <3>. QED
      BY <1>3, <2>2, <3>1
  <2>5. CASE ~SourceSignals /\ ~SourceExits
    BY <1>4, <2>5, SourceGoes, SourceMoves DEF Source
  <2>. QED
    BY <2>3, <2>4, <2>5
<1>5. CASE StartSource
  BY <1>5, StartSourceIs
<1>6. CASE UNCHANGED src /\ Started
  BY <1>2, <1>3, <1>6 DEF SignalsInv, Started, FilterStops, SinkStops
<1>7. Source \/ StartSource \/ (UNCHANGED src /\ Started)
  <2>1. Filter \/ Sink => UNCHANGED <<src, phase>>
    BY DEF Filter, Sink, setup
  <2>2. Configure => UNCHANGED <<src, phase>>
    BY DEF Configure
  <2>3. CallStop \/ AbortCloses => UNCHANGED src /\ Started
    BY DEF CallStop, AbortCloses, Started
  <2>4. ~Joined
    BY DEF Joined, Started
  <2>. QED
    BY <1>1, <2>1, <2>2, <2>3, <2>4 DEF Next, Client, Started
<1>. QED
  BY <1>4, <1>5, <1>6, <1>7

-------------------------------------------------------------------------------
(* A reset that is answered leaves the filter idle.                        *)

Idle == flt.acc = {} /\ queue["filter"] = <<>>

LEMMA SourceReset ==
  ASSUME TypeOK, PhaseInv, ResetInv, Source
  PROVE  ResetInv'
<1>1. UNCHANGED flt
  BY DEF Source
<1>2. CASE SourceLoops
  <2>1. /\ src.pc = "Top" /\ UNCHANGED <<queue, reset_event>>
        /\ sig_accumulator_reset' = (sig_accumulator_reset \/ LeavesFilter)
    BY <1>2 DEF SourceLoops, queues
  <2>2. ~sig_accumulator_reset /\ ~reset_event
    BY <2>1 DEF ResetInv
  <2>3. CASE LeavesFilter
    <3>1. src'.pc = "Await" /\ src'.out = "sink"
      BY <1>2, <2>3, SourceMoves DEF LeavesFilter
    <3>. QED
      BY <2>1, <2>2, <2>3, <3>1 DEF ResetInv
  <2>4. CASE ~LeavesFilter
    <3>1. src'.pc = "Map" /\ src'.early = SinkFirst
          /\ src'.out = IF enable_filter THEN "filter" ELSE "sink"
      BY <1>2, <2>4, SourceMoves
    <3>2. src'.out = "sink" /\ ~src'.early => flt.left \/ Idle
      <4> SUFFICES ASSUME src'.out = "sink", ~src'.early
                   PROVE  flt.left \/ Idle
        OBVIOUS
      <4>1. ~enable_filter /\ ~src.early /\ (src.out = "none" => Idle)
        BY <3>1 DEF SinkFirst, FilterHasFrames, Idle
      <4>2. src.out \in {"none", "sink"}
        BY <2>4, <4>1, RecordsOf DEF LeavesFilter, Sources, Queues
      <4>. QED
        BY <2>1, <4>1, <4>2 DEF ResetInv, Idle
    <3>. QED
      BY <1>1, <2>1, <2>2, <2>4, <3>1, <3>2 DEF ResetInv, Idle
  <2>. QED
    BY <2>3, <2>4
<1>3. CASE SourceAwaits
  <2>1. /\ src.pc = "Await" /\ src'.pc = "Map" /\ reset_event /\ ~reset_event'
        /\ UNCHANGED <<queue, sig_accumulator_reset>>
    BY <1>3, SourceGoes DEF SourceAwaits, queues
  <2>. QED
    BY <1>1, <2>1 DEF ResetInv
<1>4. CASE ~SourceLoops /\ ~SourceAwaits
  <2>1. /\ src.pc # "Await" /\ src'.pc # "Await" /\ UNCHANGED reset
        /\ src'.out = src.out /\ src'.early = src.early
        /\ src'.pc \in {"Top", "Map", "Camera", "Unmap"} =>
             src.pc \in {"Top", "Map", "Camera", "Unmap"}
    <3>1. SourceMaps => src.pc = "Map" /\ src'.pc \in {"Camera", "Top"} /\ UNCHANGED reset
      BY SourceGoes DEF SourceMaps
    <3>2. SourceWrites \/ SourceAborts =>
            src.pc = "Camera" /\ src'.pc \in {"Top", "Unmap"} /\ UNCHANGED reset
      BY SourceGoes, SourceMoves DEF SourceWrites, SourceAborts
    <3>7. SourceUnmaps => src.pc = "Unmap" /\ src'.pc = "Top" /\ UNCHANGED reset
      BY SourceGoes DEF SourceUnmaps
    <3>3. SourceFails \/ SourceFinishes =>
            src.pc # "Await" /\ src'.pc = "SigFilter" /\ UNCHANGED reset
      BY SourceGoes DEF SourceFails, SourceFinishes
    <3>4. SourceSignals => /\ src.pc # "Await" /\ src'.pc \in {"SigSink", "Clear"}
                           /\ UNCHANGED reset
      BY SourceGoes DEF SourceSignals
    <3>5. SourceExits => src.pc # "Await" /\ src'.pc = "Exited" /\ UNCHANGED reset
      BY SourceGoes DEF SourceExits
    <3>6. src'.out = src.out /\ src'.early = src.early
      BY <1>4, SourceMoves
    <3>. QED
      BY <1>4, <3>1, <3>2, <3>3, <3>4, <3>5, <3>6, <3>7 DEF Source
  <2>2. src.out = "sink" => queue'["filter"] = queue["filter"]
    BY SourceQueues, TwoQueues
  <2>. QED
    BY <1>1, <2>1, <2>2 DEF ResetInv, reset
<1>. QED
  BY <1>2, <1>3, <1>4

LEMMA FilterReset ==
  ASSUME TypeOK, PhaseInv, SliceInv, ResetInv, Filter
  PROVE  ResetInv'
<1>1. UNCHANGED src
  BY DEF Filter
<1>2. Idle => Idle'
  BY IdleStays DEF Idle
<1>3. CASE FilterResets
  <2>1. /\ reset_event' = (reset_event \/ sig_accumulator_reset)
        /\ sig_accumulator_reset' = FALSE /\ UNCHANGED queue
    BY <1>3 DEF FilterResets, queues
  <2>2. flt'.left = (IF sig_accumulator_reset THEN FilterHasFrames ELSE flt.left)
        /\ flt'.acc = (IF sig_accumulator_reset THEN {} ELSE flt.acc)
    BY <1>3, FilterMoves
  <2>3. sig_accumulator_reset => flt'.left \/ Idle'
    BY <2>1, <2>2 DEF FilterHasFrames, Idle
  <2>4. ~sig_accumulator_reset => flt'.left = flt.left
    BY <2>2
  <2>. QED
    BY <1>1, <1>2, <2>1, <2>3, <2>4 DEF ResetInv, Idle
<1>4. CASE ~FilterResets
  <2>1. UNCHANGED reset
    BY <1>4 DEF Filter, FilterLoops, FilterMaps, FilterStartsWindow, FilterAdds,
      FilterDropsWindow, FilterFails, FilterUnmaps, FilterExits
  <2>2. flt'.left = flt.left
    BY <1>4, FilterMoves, FilterSeesIs DEF Filter, FilterSees
  <2>. QED
    BY <1>1, <1>2, <2>1, <2>2 DEF ResetInv, Idle, reset
<1>. QED
  BY <1>3, <1>4

LEMMA SinkReset ==
  ASSUME TypeOK, ResetInv, Sink
  PROVE  ResetInv'
  BY SinkQueues DEF ResetInv, Sink, reset

LEMMA ClientReset ==
  ASSUME TypeOK, PhaseInv, ResetInv, Client
  PROVE  ResetInv'
<1>1. UNCHANGED <<reset, queue>> /\ flt'.acc = flt.acc
  BY ClientElements DEF Client
<1>2. CASE StartFilter
  <2>1. src.pc = "Exited" /\ UNCHANGED src
    BY <1>2 DEF StartFilter, PhaseInv
  <2>. QED
    BY <1>1, <2>1 DEF ResetInv, reset
<1>3. CASE StartSource
  <2>1. src.pc = "Exited" /\ src'.pc = "Top" /\ src'.out = "none"
    BY <1>3, StartSourceIs DEF StartSource, PhaseInv
  <2>. QED
    BY <1>1, <2>1 DEF ResetInv, reset
<1>4. CASE UNCHANGED <<src, flt>>
  BY <1>1, <1>4 DEF ResetInv, reset
<1>. QED
  BY <1>2, <1>3, <1>4 DEF Client, StartSink, StartFails, Configure, CallStop, AbortCloses,
    Joined

-------------------------------------------------------------------------------
(* Windows are whole.                                                      *)

LEMMA SumIs ==
  ASSUME TypeOK, SliceInv, FramesInv, HasFrame
  PROVE  /\ Cardinality(NextFrame) = 1
         /\ Cardinality(flt.acc) \in Nat /\ Cardinality(flt.acc \cup NextFrame) \in Nat
         /\ Cardinality(flt.acc \cup NextFrame) <= Cardinality(flt.acc) + 1
<1>1. PICK i \in Ids : NextFrame = {i}
  BY NextFrameIs DEF FramesInv
<1>2. IsFiniteSet(Ids)
  <2>1. 0 \in Int /\ MaxRuns * MaxFrames - 1 \in Int
    BY FramesAssumption, RunsAssumption
  <2>. QED
    BY <2>1, FS_Interval DEF Ids
<1>3. flt.acc \in SUBSET Ids
  BY RecordsOf DEF Filters, Frames
<1>4. IsFiniteSet(flt.acc)
  BY <1>2, <1>3, FS_Subset
<1>5. Cardinality(flt.acc) \in Nat
  BY <1>4, FS_CardinalityType
<1>6. Cardinality(flt.acc \cup {i}) \in {Cardinality(flt.acc), Cardinality(flt.acc) + 1}
  BY <1>4, FS_AddElement
<1>7. Cardinality({i}) = 1
  BY FS_Singleton
<1>. QED
  BY <1>1, <1>5, <1>6, <1>7

LEMMA NextWindow ==
  ASSUME TypeOK, SliceInv, FramesInv, WindowsInv, Next
  PROVE  flt'.acc # {} => Cardinality(flt'.acc) < Window
<1>1. flt.acc # {} => Cardinality(flt.acc) < Window
  BY DEF WindowsInv
<1>2. CASE flt'.acc \in {{}, flt.acc}
  BY <1>1, <1>2
<1>3. CASE FilterStartsWindow /\ flt'.acc = NextFrame
  BY <1>3, SumIs, WindowAssumption DEF FilterStartsWindow
<1>4. CASE FilterAdds /\ Filter
  <2>1. HasFrame
    BY <1>4 DEF FilterAdds
  <2>2. CASE flt'.acc = {}
    BY <2>2
  <2>3. CASE /\ flt'.acc = flt.acc \cup NextFrame
             /\ ~(Cardinality(flt.acc \cup NextFrame) >= Window)
    BY <2>1, <2>3, SumIs, WindowAssumption
  <2>. QED
    BY <1>4, <2>2, <2>3, FilterQueues
<1>5. Filter /\ ~FilterAdds =>
        flt'.acc \in {{}, flt.acc} \/ (FilterStartsWindow /\ flt'.acc = NextFrame)
  BY FilterMoves, FilterSeesIs DEF Filter, FilterSees
<1>6. Source \/ Sink => UNCHANGED flt
  BY DEF Source, Sink
<1>7. Client => flt'.acc = flt.acc
  BY ClientElements
<1>. QED
  BY <1>2, <1>3, <1>4, <1>5, <1>6, <1>7 DEF Next

\* No frame there is belongs to a run that has yet to acquire one.
LEMMA NoneOfNextRun ==
  ASSUME TypeOK, NumbersInv, NEW r \in Nat, NextId <= (r - 1) * MaxFrames,
         NEW f \in All, f # {}
  PROVE  ~(f \subseteq RunIds(r))
<1>1. PICK i \in f : i \in Nat /\ i < NextId
  BY AllAre DEF NumbersInv, All
<1>2. (r - 1) * MaxFrames \in Int /\ r * MaxFrames \in Int
  BY FramesAssumption
<1>3. ~((r - 1) * MaxFrames <= i)
  BY <1>1, <1>2, NextIdIs
<1>. QED
  BY <1>1, <1>2, <1>3 DEF RunIds

AllWhole ==
  \A f \in Elements(stored) \cup Elements(queue["sink"]) :
    f \subseteq RunIds(run) => Cardinality(f) = Window

WindowsStand ==
  /\ \A i \in DOMAIN queue["sink"] : queue["sink"][i] \subseteq RunIds(run) =>
       WholeOrLast(queue["sink"], i)
  /\ \A i \in DOMAIN stored : stored[i] \subseteq RunIds(run) =>
       /\ WholeOrLast(stored, i)
       /\ queue["sink"] = <<>> \/ Cardinality(stored[i]) = Window

Ends == flt.acc = {} /\ flt.pc \in {"Publish", "Exited"}

LEMMA WindowsAre ==
  WindowsInv <=> /\ flt.acc # {} => Cardinality(flt.acc) < Window
                 /\ (enable_filter /\ "switch" \notin mishaps) => WindowsStand
  BY DEF WindowsInv, WindowsStand

LEMMA WholeStand ==
  /\ WindowsStand /\ ~Ends => AllWhole
  /\ AllWhole => WindowsStand
  /\ AllWhole' => WindowsStand'
<1>1. ASSUME WindowsStand, ~Ends PROVE AllWhole
  <2>1. /\ \A i \in DOMAIN queue["sink"] : queue["sink"][i] \subseteq RunIds(run) =>
             Cardinality(queue["sink"][i]) = Window
        /\ \A i \in DOMAIN stored : stored[i] \subseteq RunIds(run) =>
             Cardinality(stored[i]) = Window
    BY <1>1 DEF WindowsStand, WholeOrLast, Ends
  <2>. QED
    BY <2>1 DEF AllWhole, Elements
<1>2. AllWhole => WindowsStand
  BY DEF AllWhole, WindowsStand, WholeOrLast, Elements
<1>3. AllWhole' => WindowsStand'
  BY DEF AllWhole, WindowsStand, WholeOrLast, Elements
<1>. QED
  BY <1>1, <1>2, <1>3

LEMMA StandsIfSame ==
  ASSUME WindowsStand, UNCHANGED <<stored, run>>, queue'["sink"] = queue["sink"], Ends => Ends'
  PROVE  WindowsStand'
  BY DEF WindowsStand, WholeOrLast, Ends

LEMMA SourceWindows ==
  ASSUME TypeOK, PhaseInv, UnswitchedInv, Source, enable_filter, "switch" \notin mishaps,
         WindowsStand
  PROVE  WindowsStand'
<1>1. src.out # "sink"
  BY DEF UnswitchedInv
<1>2. queue'["sink"] = queue["sink"]
  BY <1>1, SourceQueues, TwoQueues
<1>3. UNCHANGED <<stored, run, flt>>
  BY DEF Source, setup
<1>. QED
  BY <1>2, <1>3, StandsIfSame DEF Ends

LEMMA FilterWindows ==
  ASSUME TypeOK, SliceInv, RegionInv, FramesInv, Filter, WindowsStand, "switch" \notin mishaps,
         flt.acc # {} => Cardinality(flt.acc) < Window
  PROVE  WindowsStand'
<1>1. UNCHANGED <<stored, run>>
  BY DEF Filter, setup
<1>2. stored \in Seq(Frames) /\ queue["sink"] \in Seq(Frames)
  BY QueueTypes, TwoQueues DEF TypeOK
<1>3. CASE Ends
  <2>1. FilterExits /\ flt.acc = {}
    BY <1>3 DEF Ends, Filter, FilterLoops, FilterMaps, FilterStartsWindow, FilterAdds,
      FilterDropsWindow, FilterFails, FilterUnmaps, FilterResets, HasFrame
  <2>2. UNCHANGED queue /\ Ends'
    BY <2>1, FilterQueues, FilterMoves DEF Ends
  <2>. QED
    BY <1>1, <2>2, StandsIfSame
<1>4. CASE ~Ends
  <2>1. AllWhole
    BY <1>4, WholeStand
  <2>2. CASE Elements(queue'["sink"]) \subseteq Elements(queue["sink"])
    BY <1>1, <2>1, <2>2, WholeStand DEF AllWhole
  <2>3. ASSUME NEW f, Publishes(f), Cardinality(f) = Window
        PROVE  WindowsStand'
    <3>1. Elements(queue'["sink"]) \subseteq Elements(queue["sink"]) \cup {f}
      BY <2>3, PutsIs, TwoQueues DEF Publishes
    <3>. QED
      BY <1>1, <2>1, <2>3, <3>1, WholeStand DEF AllWhole
  <2>4. ASSUME Publishes(flt.acc), flt.acc # {}, Ends'
        PROVE  WindowsStand'
    <3>1. CASE Accepts("sink")
      <4>1. queue'["sink"] = Append(queue["sink"], flt.acc) /\ flt.acc \in Frames
        BY <2>4, <3>1, PutsIs, TwoQueues DEF Publishes
      <4>2. /\ Len(queue["sink"]) \in Nat
            /\ Len(queue'["sink"]) = Len(queue["sink"]) + 1
            /\ DOMAIN queue'["sink"] = 1 .. Len(queue["sink"]) + 1
            /\ \A i \in 1 .. Len(queue["sink"]) : queue'["sink"][i] = queue["sink"][i]
            /\ queue'["sink"][Len(queue["sink"]) + 1] = flt.acc
        BY <1>2, <4>1, AppendElements, LenProperties
      <4>3. \A i \in DOMAIN queue'["sink"] : queue'["sink"][i] \subseteq RunIds(run) =>
              WholeOrLast(queue["sink"], i)'
        <5> SUFFICES ASSUME NEW i \in 1 .. Len(queue["sink"]) + 1,
                            queue'["sink"][i] \subseteq RunIds(run)
                     PROVE  WholeOrLast(queue["sink"], i)'
          BY <4>2
        <5>1. CASE i \in 1 .. Len(queue["sink"])
          <6>1. queue["sink"][i] \in Elements(queue["sink"])
            BY <1>2, <5>1, ElementsOf
          <6>. QED
            BY <2>1, <4>2, <5>1, <6>1 DEF AllWhole, WholeOrLast
        <5>2. CASE i = Len(queue["sink"]) + 1
          BY <2>4, <4>2, <5>2 DEF WholeOrLast, Ends
        <5>. QED
          BY <4>2, <5>1, <5>2
      <4>4. \A i \in DOMAIN stored : stored[i] \subseteq RunIds(run) =>
              Cardinality(stored[i]) = Window
        BY <2>1 DEF AllWhole, Elements
      <4>. QED
        BY <1>1, <4>3, <4>4 DEF WindowsStand, WholeOrLast
    <3>2. CASE ~Accepts("sink")
      <4>1. queue'["sink"] = queue["sink"]
        BY <2>4, <3>2, PutsIs, TwoQueues DEF Publishes
      <4>. QED
        BY <1>1, <2>1, <4>1, WholeStand DEF AllWhole
    <3>. QED
      BY <3>1, <3>2
  <2>5. CASE FilterAdds
    <3>1. CASE UNCHANGED queue
      BY <2>2, <3>1
    <3>2. CASE /\ Publishes(flt.acc \cup NextFrame)
               /\ Cardinality(flt.acc \cup NextFrame) >= Window
      <4>1. HasFrame /\ flt.acc # {}
        BY <2>5 DEF FilterAdds
      <4>2. Cardinality(flt.acc \cup NextFrame) = Window
        BY <3>2, <4>1, SumIs, WindowAssumption
      <4>. QED
        BY <2>3, <3>2, <4>2
    <3>. QED
      BY <2>5, <3>1, <3>2, FilterQueues, FilterAlone
  <2>6. CASE FilterFails
    <3>1. Publishes(flt.acc) /\ flt.acc # {} /\ Ends'
      BY <2>6, FilterQueues, FilterAlone, FilterMoves DEF FilterFails, Ends
    <3>. QED
      BY <2>4, <3>1
  <2>7. CASE FilterExits
    <3>1. Ends' /\ (UNCHANGED queue \/ (Publishes(flt.acc) /\ flt.acc # {}))
      BY <2>7, FilterQueues, FilterAlone, FilterMoves DEF Ends
    <3>. QED
      BY <2>2, <2>4, <3>1
  <2>8. CASE FilterStartsWindow
    <3>1. queue'["sink"] \in {queue["sink"], <<>>}
      BY <2>8, FilterQueues, MapRegionIs, TwoQueues, TwoWriters
    <3>. QED
      BY <2>2, <3>1, EmptyElements
  <2>9. CASE FilterMaps
    <3>1. queue'["sink"] = queue["sink"]
      BY <2>9, FilterMoves, SkipIs, TwoQueues DEF ReadNothing
    <3>. QED
      BY <2>2, <3>1
  <2>10. CASE FilterUnmaps
    <3>1. queue'["sink"] = queue["sink"]
      BY <2>10, FilterQueues, ConsumeIs, TwoQueues
    <3>. QED
      BY <2>2, <3>1
  <2>11. CASE FilterLoops \/ FilterResets \/ FilterDropsWindow
    BY <2>2, <2>11, FilterQueues
  <2>. QED
    BY <2>5, <2>6, <2>7, <2>8, <2>9, <2>10, <2>11 DEF Filter
<1>. QED
  BY <1>3, <1>4

LEMMA SinkWindows ==
  ASSUME TypeOK, Sink, WindowsStand
  PROVE  WindowsStand'
<1>1. UNCHANGED <<flt, run>>
  BY DEF Sink, setup
<1>2. /\ stored \in Seq(Frames) /\ queue["sink"] \in Seq(Frames)
      /\ Len(stored) \in Nat /\ Len(queue["sink"]) \in Nat
      /\ DOMAIN stored = 1 .. Len(stored) /\ DOMAIN queue["sink"] = 1 .. Len(queue["sink"])
  BY QueueTypes, TwoQueues, LenProperties DEF TypeOK
<1>3. ASSUME NEW n \in 1 .. Len(queue["sink"]),
             stored' = stored \o SubSeq(queue["sink"], 1, n), Consume("sink", n)
      PROVE  WindowsStand'
  <2>1. n \in 0 .. Len(queue["sink"]) /\ n \in Nat /\ n > 0 /\ queue["sink"] # <<>>
    BY <1>2, ElementsOf
  <2>2. /\ stored' \in Seq(Frames) /\ Len(stored') = Len(stored) + n
        /\ \A i \in 1 .. Len(stored) : stored'[i] = stored[i]
        /\ \A i \in 1 .. n : stored'[Len(stored) + i] = queue["sink"][i]
    BY <1>3, AppendIs
  <2>3. /\ queue'["sink"] \in Seq(Frames) /\ Len(queue'["sink"]) = Len(queue["sink"]) - n
        /\ \A i \in 1 .. Len(queue["sink"]) - n : queue'["sink"][i] = queue["sink"][n + i]
    BY <1>3, <2>1, ConsumeIs, TwoQueues
  <2>4. DOMAIN stored' = 1 .. Len(stored) + n
        /\ DOMAIN queue'["sink"] = 1 .. Len(queue["sink"]) - n
    BY <2>2, <2>3, LenProperties
  <2>5. ASSUME NEW i \in 1 .. Len(queue["sink"]) - n, queue'["sink"][i] \subseteq RunIds(run)
        PROVE  WholeOrLast(queue["sink"], i)'
    <3>6. n + i \in 1 .. Len(queue["sink"])
      BY <1>2, <2>1
    <3>1. n + i \in 1 .. Len(queue["sink"]) /\ queue'["sink"][i] = queue["sink"][n + i]
      BY <2>3, <3>6
    <3>2. WholeOrLast(queue["sink"], n + i)
      BY <1>2, <2>5, <3>1 DEF WindowsStand
    <3>3. n + i = Len(queue["sink"]) => i = Len(queue'["sink"])
      BY <1>2, <2>1, <2>3
    <3>4. CASE Cardinality(queue["sink"][n + i]) = Window
      BY <3>1, <3>4 DEF WholeOrLast
    <3>5. CASE n + i = Len(queue["sink"]) /\ Cardinality(queue["sink"][n + i]) < Window
               /\ flt.acc = {} /\ flt.pc \in {"Publish", "Exited"}
      BY <1>1, <3>1, <3>3, <3>5 DEF WholeOrLast
    <3>. QED
      BY <3>2, <3>4, <3>5 DEF WholeOrLast
  <2>6. ASSUME NEW i \in 1 .. Len(stored) + n, stored'[i] \subseteq RunIds(run)
        PROVE  /\ WholeOrLast(stored, i)'
               /\ queue'["sink"] = <<>> \/ Cardinality(stored'[i]) = Window
    <3>1. CASE i \in 1 .. Len(stored)
      <4>1. stored'[i] = stored[i] /\ Cardinality(stored[i]) = Window
        BY <1>2, <2>1, <2>2, <2>6, <3>1 DEF WindowsStand
      <4>. QED
        BY <4>1 DEF WholeOrLast
    <3>2. CASE i \notin 1 .. Len(stored)
      <4>1. i - Len(stored) \in 1 .. n /\ Len(stored) + (i - Len(stored)) = i
        BY <1>2, <2>1, <3>2
      <4>2. stored'[i] = queue["sink"][i - Len(stored)]
        BY <2>2, <4>1
      <4>3. WholeOrLast(queue["sink"], i - Len(stored))
        BY <1>2, <2>1, <2>6, <4>1, <4>2 DEF WindowsStand
      <4>4. i - Len(stored) = Len(queue["sink"]) => i = Len(stored') /\ Len(queue'["sink"]) = 0
        BY <1>2, <2>1, <2>2, <2>3, <4>1
      <4>5. Len(queue'["sink"]) = 0 => queue'["sink"] = <<>>
        BY <2>3, ElementsOf
      <4>. QED
        BY <1>1, <4>2, <4>3, <4>4, <4>5 DEF WholeOrLast
    <3>. QED
      BY <3>1, <3>2
  <2>. QED
    BY <1>1, <2>4, <2>5, <2>6 DEF WindowsStand
<1>4. ASSUME queue'["sink"] = <<>>, UNCHANGED stored
      PROVE  WindowsStand'
  <2>1. DOMAIN queue'["sink"] = {}
    BY <1>4
  <2>. QED
    BY <1>1, <1>4, <2>1 DEF WindowsStand, WholeOrLast
<1>5. ASSUME UNCHANGED <<queue, stored>>
      PROVE  WindowsStand'
  BY <1>1, <1>5, StandsIfSame DEF Ends
<1>. QED
  BY <1>3, <1>4, <1>5, SinkQueues, SkipIs, TwoQueues DEF Sink

LEMMA ClientWindows ==
  ASSUME TypeOK, PhaseInv, FramesInv, NumbersInv, "switch" \notin mishaps, Client, WindowsStand
  PROVE  WindowsStand'
<1>1. UNCHANGED queue /\ Elements(stored') \subseteq Elements(stored)
  BY ClientElements
<1>2. src.iframe \in Nat /\ src.iframe <= MaxFrames /\ run \in Nat /\ MaxFrames \in Nat
      /\ (run - 1) * MaxFrames \in Int
  BY RecordsOf, FramesAssumption, RunBase DEF Sources
<1>3. ASSUME NextId <= (run' - 1) * MaxFrames, run' \in Nat
      PROVE  WindowsStand'
  <2>1. \A f \in Elements(stored) \cup Elements(queue["sink"]) : ~(f \subseteq RunIds(run'))
    BY <1>3, NoneOfNextRun DEF All, FramesInv, Torn
  <2>2. RunIds(run)' = RunIds(run')
    BY DEF RunIds
  <2>3. AllWhole'
    BY <1>1, <2>1, <2>2 DEF AllWhole
  <2>. QED
    BY <2>3, WholeStand
<1>4. CASE StartSink
  <2>1. run' = run + 1 /\ NextId = (run - 1) * MaxFrames + src.iframe
    BY <1>4 DEF StartSink, NextId
  <2>2. (run' - 1) * MaxFrames = (run - 1) * MaxFrames + MaxFrames
    BY <1>2, <2>1, RunBase
  <2>. QED
    BY <1>2, <1>3, <2>1, <2>2
<1>5. CASE StartFilter
  <2>1. run' = run /\ NextId = (run - 1) * MaxFrames + 0
    BY <1>5 DEF StartFilter, NextId
  <2>. QED
    BY <1>2, <1>3, <2>1
<1>6. CASE UNCHANGED <<stored, run, flt>>
  BY <1>1, <1>6, StandsIfSame DEF Ends
<1>. QED
  BY <1>4, <1>5, <1>6 DEF Client, StartSource, StartFails, Configure, CallStop, AbortCloses,
    Joined

LEMMA NextWindows ==
  ASSUME TypeOK, PhaseInv, SliceInv, RegionInv, FramesInv, NumbersInv, UnswitchedInv, WindowsInv,
         Next
  PROVE  WindowsInv'
<1>1. flt'.acc # {} => Cardinality(flt'.acc) < Window
  BY NextWindow
<1>2. ASSUME enable_filter', "switch" \notin mishaps'
      PROVE  WindowsStand'
  <2>1. enable_filter /\ "switch" \notin mishaps
    BY <1>2, LastingStays DEF Lasting
  <2>2. WindowsStand /\ (flt.acc # {} => Cardinality(flt.acc) < Window)
    BY <2>1, WindowsAre
  <2>. QED
    BY <2>1, <2>2, SourceWindows, FilterWindows, SinkWindows, ClientWindows DEF Next
<1>. QED
  BY <1>1, <1>2 DEF WindowsInv, WindowsStand

-------------------------------------------------------------------------------
(* Frames are in order from storage back to the filter's queue.            *)

Ordered(st, sk, a, un) ==
  /\ InOrder(st) /\ InOrder(sk) /\ InOrder(un)
  /\ AllBefore(Elements(st), Elements(sk))
  /\ AllBefore(Elements(st) \cup Elements(sk), {a} \cup Elements(un))
  /\ AllBefore({a}, Elements(un))

LEMMA InOrderOf ==
  ASSUME NEW s \in Seq(Frames)
  PROVE  InOrder(s) <=> \A i, j \in 1 .. Len(s) : i < j => Before(s[i], s[j])
  BY LenProperties DEF InOrder

LEMMA InOrderEmpty == InOrder(<<>>) /\ Elements(<<>>) = {}
  BY EmptyElements DEF InOrder

LEMMA InOrderAppend ==
  ASSUME NEW s \in Seq(Frames), NEW f \in Frames, InOrder(s), AllBefore(Elements(s), {f})
  PROVE  InOrder(Append(s, f))
<1>1. /\ Append(s, f) \in Seq(Frames) /\ Len(Append(s, f)) = Len(s) + 1 /\ Len(s) \in Nat
      /\ \A i \in 1 .. Len(s) : Append(s, f)[i] = s[i]
      /\ Append(s, f)[Len(s) + 1] = f
  BY AppendElements, LenProperties
<1> SUFFICES ASSUME NEW i \in 1 .. Len(s) + 1, NEW j \in 1 .. Len(s) + 1, i < j
             PROVE  Before(Append(s, f)[i], Append(s, f)[j])
  BY <1>1, InOrderOf
<1>2. i \in 1 .. Len(s) /\ Append(s, f)[i] = s[i]
  BY <1>1
<1>3. CASE j \in 1 .. Len(s)
  BY <1>1, <1>2, <1>3, InOrderOf
<1>4. CASE j = Len(s) + 1
  BY <1>1, <1>2, <1>4, ElementsOf DEF AllBefore
<1>. QED
  BY <1>1, <1>3, <1>4

LEMMA InOrderRest ==
  ASSUME NEW s \in Seq(Frames), NEW n \in 0 .. Len(s), InOrder(s)
  PROVE  /\ InOrder(SubSeq(s, n + 1, Len(s)))
         /\ \A i \in 1 .. n : \A f \in Elements(SubSeq(s, n + 1, Len(s))) : Before(s[i], f)
<1> DEFINE t == SubSeq(s, n + 1, Len(s))
<1>1. /\ t \in Seq(Frames) /\ Len(t) = Len(s) - n /\ Len(s) \in Nat /\ n \in Nat
      /\ \A i \in 1 .. Len(s) - n : t[i] = s[n + i]
  BY RestElements, LenProperties
<1>. HIDE DEF t
<1>2. ASSUME NEW i \in 1 .. Len(t)
      PROVE  n + i \in 1 .. Len(s) /\ t[i] = s[n + i]
  BY <1>1
<1>3. \A i, j \in 1 .. Len(s) : i < j => Before(s[i], s[j])
  BY InOrderOf
<1>4. InOrder(t)
  <2>1. ASSUME NEW i \in 1 .. Len(t), NEW j \in 1 .. Len(t), i < j
        PROVE  Before(t[i], t[j])
    <3>1. n + i < n + j
      BY <1>1, <2>1
    <3>. QED
      BY <1>2, <1>3, <3>1
  <2>. QED
    BY <1>1, <2>1, InOrderOf
<1>5. ASSUME NEW i \in 1 .. n, NEW f \in Elements(t)
      PROVE  Before(s[i], f)
  <2>1. PICK j \in 1 .. Len(t) : f = t[j]
    BY <1>1, ElementsOf
  <2>2. i \in 1 .. Len(s) /\ i < n + j
    BY <1>1, <2>1
  <2>. QED
    BY <1>2, <1>3, <2>1, <2>2
<1>. QED
  BY <1>4, <1>5 DEF t

LEMMA InOrderConcat ==
  ASSUME NEW s \in Seq(Frames), NEW t \in Seq(Frames), InOrder(s), InOrder(t),
         AllBefore(Elements(s), Elements(t))
  PROVE  InOrder(s \o t)
<1>1. /\ s \o t \in Seq(Frames) /\ Len(s \o t) = Len(s) + Len(t)
      /\ \A i \in 1 .. Len(s) : (s \o t)[i] = s[i]
      /\ \A i \in 1 .. Len(t) : (s \o t)[Len(s) + i] = t[i]
      /\ Len(s) \in Nat /\ Len(t) \in Nat
  BY ConcatElements, LenProperties
<1> SUFFICES ASSUME NEW i \in 1 .. Len(s) + Len(t), NEW j \in 1 .. Len(s) + Len(t), i < j
             PROVE  Before((s \o t)[i], (s \o t)[j])
  BY <1>1, InOrderOf
<1>2. ASSUME NEW k \in 1 .. Len(s) + Len(t), k \notin 1 .. Len(s)
      PROVE  k - Len(s) \in 1 .. Len(t) /\ (s \o t)[k] = t[k - Len(s)]
  <2>1. k - Len(s) \in 1 .. Len(t) /\ Len(s) + (k - Len(s)) = k
    BY <1>1, <1>2
  <2>. QED
    BY <1>1, <2>1
<1>3. CASE i \in 1 .. Len(s) /\ j \in 1 .. Len(s)
  BY <1>1, <1>3, InOrderOf
<1>4. CASE i \in 1 .. Len(s) /\ j \notin 1 .. Len(s)
  <2>1. s[i] \in Elements(s) /\ t[j - Len(s)] \in Elements(t)
    BY <1>2, <1>4, ElementsOf
  <2>. QED
    BY <1>1, <1>2, <1>4, <2>1 DEF AllBefore
<1>5. CASE i \notin 1 .. Len(s)
  <2>1. j \notin 1 .. Len(s) /\ i - Len(s) < j - Len(s)
    BY <1>1, <1>5
  <2>. QED
    BY <1>2, <1>5, <2>1, InOrderOf
<1>. QED
  BY <1>3, <1>4, <1>5

\* What is skipped or dropped leaves the rest in order.
LEMMA OrderedLess ==
  ASSUME NEW st, NEW sk, NEW a, NEW un, Ordered(st, sk, a, un)
  PROVE  /\ Ordered(<<>>, sk, a, un) /\ Ordered(st, <<>>, a, un) /\ Ordered(st, sk, {}, un)
         /\ Ordered(st, sk, a, <<>>)
<1>1. \A S, T : AllBefore(S, {}) /\ AllBefore({}, T) /\ AllBefore(S, {{}}) /\ AllBefore({{}}, T)
  BY DEF AllBefore, Before
<1>2. AllBefore(Elements(st) \cup Elements(sk), {{}} \cup Elements(un))
  BY <1>1 DEF Ordered, AllBefore
<1>3. /\ AllBefore(Elements(st), {a} \cup Elements(un))
      /\ AllBefore(Elements(sk), {a} \cup Elements(un))
      /\ AllBefore(Elements(st) \cup Elements(sk), {a})
  BY DEF Ordered, AllBefore
<1>. QED
  BY <1>1, <1>2, <1>3, InOrderEmpty DEF Ordered

\* A frame that comes after all others is added at the end.
LEMMA OrderedAcquired ==
  ASSUME NEW st \in Seq(Frames), NEW sk \in Seq(Frames), NEW a, NEW un \in Seq(Frames),
         NEW f \in Frames, Ordered(st, sk, a, un),
         AllBefore(Elements(st) \cup Elements(sk) \cup Elements(un) \cup {a}, {f})
  PROVE  /\ Ordered(st, sk, a, Append(un, f))
         /\ a = {} /\ un = <<>> => Ordered(st, Append(sk, f), a, un)
<1>1. /\ Elements(Append(un, f)) = Elements(un) \cup {f}
      /\ Elements(Append(sk, f)) = Elements(sk) \cup {f}
  BY AppendElements
<1>2. /\ AllBefore(Elements(st), {f}) /\ AllBefore(Elements(sk), {f})
      /\ AllBefore(Elements(un), {f}) /\ AllBefore({a}, {f})
  BY DEF AllBefore
<1>3. InOrder(Append(un, f)) /\ InOrder(Append(sk, f))
  BY <1>2, InOrderAppend DEF Ordered
<1>4. Ordered(st, sk, a, Append(un, f))
  <2>1. AllBefore(Elements(st) \cup Elements(sk), {a} \cup (Elements(un) \cup {f}))
    BY <1>2 DEF Ordered, AllBefore
  <2>2. AllBefore({a}, Elements(un) \cup {f})
    BY <1>2 DEF Ordered, AllBefore
  <2>. QED
    BY <1>1, <1>3, <2>1, <2>2 DEF Ordered
<1>5. ASSUME a = {}, un = <<>>
      PROVE  Ordered(st, Append(sk, f), a, un)
  <2>1. AllBefore(Elements(st), Elements(sk) \cup {f})
    BY <1>2 DEF Ordered, AllBefore
  <2>2. \A S : AllBefore(S, {{}} \cup {}) /\ AllBefore({{}}, {})
    BY DEF AllBefore, Before
  <2>. QED
    BY <1>1, <1>3, <1>5, <2>1, <2>2, InOrderEmpty DEF Ordered
<1>. QED
  BY <1>4, <1>5

\* The next unseen frame is added to the sum, and the sum is published.
LEMMA OrderedSeen ==
  ASSUME NEW st \in Seq(Frames), NEW sk \in Seq(Frames), NEW a \in Frames,
         NEW un \in Seq(Frames), Ordered(st, sk, a, un), 1 <= Len(un)
  PROVE  LET rest == SubSeq(un, 2, Len(un))
         IN  Ordered(st, sk, {}, rest) /\ Ordered(st, sk, a \cup un[1], rest)
<1> DEFINE rest == SubSeq(un, 2, Len(un))
<1>1. Len(un) \in Nat /\ 1 \in 0 .. Len(un) /\ 1 \in 1 .. Len(un)
  BY LenProperties
<1>2. rest \in Seq(Frames) /\ Elements(rest) \subseteq Elements(un)
  BY <1>1, RestElements
<1>3. InOrder(rest) /\ \A f \in Elements(rest) : Before(un[1], f)
  BY <1>1, InOrderRest DEF Ordered
<1>4. un[1] \in Elements(un)
  BY <1>1, ElementsOf
<1>. HIDE DEF rest
<1>5. AllBefore(Elements(st) \cup Elements(sk), {a \cup un[1]} \cup Elements(rest))
  BY <1>2, <1>4 DEF Ordered, AllBefore, Before
<1>6. AllBefore({a \cup un[1]}, Elements(rest))
  BY <1>2, <1>3 DEF Ordered, AllBefore, Before
<1>7. Ordered(st, sk, a \cup un[1], rest)
  BY <1>3, <1>5, <1>6 DEF Ordered
<1>. QED
  BY <1>7, OrderedLess DEF rest

LEMMA OrderedPublished ==
  ASSUME NEW st \in Seq(Frames), NEW sk \in Seq(Frames), NEW a \in Frames, NEW un,
         Ordered(st, sk, a, un)
  PROVE  Ordered(st, Append(sk, a), {}, un)
<1>1. Elements(Append(sk, a)) = Elements(sk) \cup {a}
  BY AppendElements
<1>2. InOrder(Append(sk, a))
  BY InOrderAppend DEF Ordered, AllBefore
<1>3. AllBefore(Elements(st), Elements(sk) \cup {a})
  BY DEF Ordered, AllBefore
<1>4. AllBefore(Elements(st) \cup (Elements(sk) \cup {a}), {{}} \cup Elements(un))
  BY DEF Ordered, AllBefore, Before
<1>5. AllBefore({{}}, Elements(un))
  BY DEF AllBefore, Before
<1>. QED
  BY <1>1, <1>2, <1>3, <1>4, <1>5 DEF Ordered

\* The first of what has been published are stored.
LEMMA OrderedStored ==
  ASSUME NEW st \in Seq(Frames), NEW sk \in Seq(Frames), NEW a, NEW un,
         NEW n \in 0 .. Len(sk), Ordered(st, sk, a, un)
  PROVE  Ordered(st \o SubSeq(sk, 1, n), SubSeq(sk, n + 1, Len(sk)), a, un)
<1> DEFINE head == SubSeq(sk, 1, n)
           rest == SubSeq(sk, n + 1, Len(sk))
<1>1. /\ head \in Seq(Frames) /\ Len(head) = n /\ \A i \in 1 .. n : head[i] = sk[i]
      /\ Elements(head) \subseteq Elements(sk)
  BY FirstElements
<1>2. rest \in Seq(Frames) /\ Elements(rest) \subseteq Elements(sk)
  BY RestElements
<1>3. /\ InOrder(rest)
      /\ \A i \in 1 .. n : \A f \in Elements(rest) : Before(sk[i], f)
  BY InOrderRest DEF Ordered
<1>. HIDE DEF head, rest
<1>4. InOrder(head)
  <2>1. \A i, j \in 1 .. n : i < j => Before(head[i], head[j])
    <3>1. 1 .. n \subseteq 1 .. Len(sk)
      BY LenProperties
    <3>. QED
      BY <1>1, <3>1, InOrderOf DEF Ordered
  <2>. QED
    BY <1>1, <2>1, InOrderOf
<1>5. AllBefore(Elements(head), Elements(rest))
  <2>1. ASSUME NEW e \in Elements(head), NEW f \in Elements(rest) PROVE Before(e, f)
    <3>1. PICK i \in 1 .. n : e = head[i]
      BY <1>1, ElementsOf
    <3>. QED
      BY <1>1, <1>3, <3>1
  <2>. QED
    BY <2>1 DEF AllBefore
<1>6. Elements(st \o head) = Elements(st) \cup Elements(head)
  BY <1>1, ConcatElements
<1>7. InOrder(st \o head)
  <2>1. AllBefore(Elements(st), Elements(head))
    BY <1>1 DEF Ordered, AllBefore
  <2>. QED
    BY <1>1, <1>4, <2>1, InOrderConcat DEF Ordered
<1>8. AllBefore(Elements(st) \cup Elements(head), Elements(rest))
  BY <1>2, <1>5 DEF Ordered, AllBefore
<1>9. AllBefore((Elements(st) \cup Elements(head)) \cup Elements(rest), {a} \cup Elements(un))
  BY <1>1, <1>2 DEF Ordered, AllBefore
<1>10. Ordered(st \o head, rest, a, un)
  BY <1>3, <1>6, <1>7, <1>8, <1>9 DEF Ordered
<1>. QED
  BY <1>10 DEF head, rest

LEMMA RestOfAppend ==
  ASSUME NEW s \in Seq(Frames), NEW e \in Frames, NEW n \in 0 .. Len(s)
  PROVE  SubSeq(Append(s, e), n + 1, Len(Append(s, e)))
           = Append(SubSeq(s, n + 1, Len(s)), e)
<1> DEFINE b == Append(s, e)
           t == SubSeq(s, n + 1, Len(s))
           u == SubSeq(b, n + 1, Len(b))
<1>1. Len(s) \in Nat /\ n \in Nat /\ n <= Len(s)
  BY LenProperties
<1>2. /\ b \in Seq(Frames) /\ Len(b) = Len(s) + 1
      /\ \A i \in 1 .. Len(s) : b[i] = s[i]
      /\ b[Len(s) + 1] = e
  BY AppendElements
<1>3. t \in Seq(Frames) /\ Len(t) = Len(s) - n /\ \A i \in 1 .. Len(s) - n : t[i] = s[n + i]
  BY RestElements
<1>. HIDE DEF b, t
<1>4. n \in 0 .. Len(b)
  BY <1>1, <1>2
<1>5. u \in Seq(Frames) /\ Len(u) = Len(b) - n /\ \A i \in 1 .. Len(b) - n : u[i] = b[n + i]
  BY <1>2, <1>4, RestElements
<1>6. /\ Append(t, e) \in Seq(Frames) /\ Len(Append(t, e)) = Len(t) + 1
      /\ \A i \in 1 .. Len(t) : Append(t, e)[i] = t[i]
      /\ Append(t, e)[Len(t) + 1] = e
  BY <1>3, AppendElements
<1>. HIDE DEF u
<1>7. Len(u) = Len(Append(t, e))
  BY <1>1, <1>2, <1>3, <1>5, <1>6
<1>8. ASSUME NEW i \in 1 .. Len(u)
      PROVE  u[i] = Append(t, e)[i]
  <2>1. i \in 1 .. Len(b) - n /\ Len(b) - n = Len(s) - n + 1
    BY <1>1, <1>2, <1>5
  <2>2. u[i] = b[n + i]
    BY <1>5, <2>1
  <2>3. CASE i <= Len(s) - n
    <3>1. i \in 1 .. Len(s) - n /\ n + i \in 1 .. Len(s)
      BY <1>1, <2>1, <2>3
    <3>. QED
      BY <1>2, <1>3, <1>6, <2>2, <3>1
  <2>4. CASE i = Len(s) - n + 1
    <3>1. n + i = Len(s) + 1 /\ i = Len(t) + 1
      BY <1>1, <1>3, <2>4
    <3>. QED
      BY <1>2, <1>6, <2>2, <3>1
  <2>5. i <= Len(s) - n \/ i = Len(s) - n + 1
    <3>1. i \in Int /\ Len(s) - n \in Int /\ i <= Len(s) - n + 1
      BY <1>1, <2>1
    <3>. QED
      BY <3>1
  <2>. QED
    BY <2>3, <2>4, <2>5
<1>9. u = Append(t, e)
  BY <1>5, <1>6, <1>7, <1>8, SeqEqual
<1>. QED
  BY <1>9 DEF b, t, u

LEMMA RestOfRest ==
  ASSUME NEW s \in Seq(Frames), NEW n \in 0 .. Len(s) - 1
  PROVE  LET t == SubSeq(s, n + 1, Len(s))
         IN  SubSeq(s, n + 1 + 1, Len(s)) = SubSeq(t, 2, Len(t))
<1> DEFINE t == SubSeq(s, n + 1, Len(s))
           u == SubSeq(s, n + 1 + 1, Len(s))
           v == SubSeq(t, 1 + 1, Len(t))
<1>1. Len(s) \in Nat /\ n \in Nat /\ n < Len(s) /\ n \in 0 .. Len(s) /\ n + 1 \in 0 .. Len(s)
  BY LenProperties
<1>2. t \in Seq(Frames) /\ Len(t) = Len(s) - n /\ \A i \in 1 .. Len(s) - n : t[i] = s[n + i]
  BY <1>1, RestElements
<1>3. /\ u \in Seq(Frames) /\ Len(u) = Len(s) - (n + 1)
      /\ \A i \in 1 .. Len(s) - (n + 1) : u[i] = s[n + 1 + i]
  BY <1>1, RestElements
<1>. HIDE DEF t
<1>4. 1 \in 0 .. Len(t)
  BY <1>1, <1>2
<1>5. v \in Seq(Frames) /\ Len(v) = Len(t) - 1 /\ \A i \in 1 .. Len(t) - 1 : v[i] = t[1 + i]
  BY <1>2, <1>4, RestElements
<1>. HIDE DEF u, v
<1>6. Len(u) = Len(v)
  BY <1>1, <1>2, <1>3, <1>5
<1>7. ASSUME NEW i \in 1 .. Len(u)
      PROVE  u[i] = v[i]
  <2>1. /\ i \in 1 .. Len(s) - (n + 1) /\ i \in 1 .. Len(t) - 1 /\ 1 + i \in 1 .. Len(s) - n
        /\ n + (1 + i) = n + 1 + i
    BY <1>1, <1>2, <1>3
  <2>2. u[i] = s[n + 1 + i] /\ v[i] = t[1 + i] /\ t[1 + i] = s[n + (1 + i)]
    BY <1>2, <1>3, <1>5, <2>1
  <2>. QED
    BY <2>1, <2>2
<1>8. u = v
  BY <1>3, <1>5, <1>6, <1>7, SeqEqual
<1>. QED
  BY <1>8 DEF t, u, v

LEMMA UnseenIs ==
  ASSUME TypeOK, SliceInv
  PROVE  /\ Unseen \in Seq(Frames) /\ Len(Unseen) = Len(queue["filter"]) - flt.done
         /\ flt.done \in 0 .. Len(queue["filter"]) /\ Len(queue["filter"]) \in Nat
         /\ queue["filter"] \in Seq(Frames)
         /\ \A i \in 1 .. Len(queue["filter"]) - flt.done :
              Unseen[i] = queue["filter"][flt.done + i]
         /\ Elements(Unseen) \subseteq Elements(queue["filter"])
<1>1. /\ Len(queue["filter"]) \in Nat /\ queue["filter"] \in Seq(Frames)
      /\ flt.done \in Nat /\ flt.mapped \in Nat
  BY QueueTypes, TwoQueues, RecordsOf, QueueAssumption DEF Filters
<1>2. flt.done \in 0 .. Len(queue["filter"])
  BY <1>1 DEF SliceInv
<1>. QED
  BY <1>1, <1>2, RestElements DEF Unseen

LEMMA OrderIs ==
  OrderInv <=> (mishaps \cap Lasting = {}
                  => Ordered(stored, queue["sink"], flt.acc, Unseen))
  BY DEF OrderInv, Ordered

LEMMA OrderIsNext ==
  /\ OrderInv' <=> (mishaps' \cap Lasting = {}
                  => Ordered(stored', queue'["sink"], flt'.acc, Unseen'))
  /\ Unseen' = SubSeq(queue'["filter"], flt'.done + 1, Len(queue'["filter"]))
  BY DEF OrderInv, Ordered, Unseen

LEMMA SourceOrder ==
  ASSUME TypeOK, PhaseInv, SliceInv, RegionInv, NumbersInv, UnswitchedInv, Source,
         "switch" \notin mishaps, Ordered(stored, queue["sink"], flt.acc, Unseen)
  PROVE  Ordered(stored', queue'["sink"], flt'.acc, Unseen')
<1>1. UNCHANGED <<stored, flt>>
  BY DEF Source
<1>2. /\ stored \in Seq(Frames) /\ queue["sink"] \in Seq(Frames) /\ flt.acc \in Frames
      /\ Unseen \in Seq(Frames) /\ Elements(Unseen) \subseteq Elements(queue["filter"])
  BY UnseenIs, QueueTypes, TwoQueues, RecordsOf DEF TypeOK, Filters
<1>3. ASSUME UNCHANGED queue
      PROVE  Ordered(stored', queue'["sink"], flt'.acc, Unseen')
  BY <1>1, <1>3 DEF Unseen
<1>4. CASE src.out = "filter" /\ MapRegion("source", "filter")
  <2>1. queue'["sink"] = queue["sink"]
    BY <1>4, SourceQueues, TwoQueues
  <2>2. CASE queue'["filter"] = queue["filter"]
    BY <1>1, <2>1, <2>2 DEF Unseen
  <2>3. CASE queue'["filter"] # queue["filter"]
    <3>1. "filter" \notin readers /\ queue'["filter"] = <<>>
      BY <1>4, <2>3, MapRegionIs, TwoQueues, TwoWriters
    <3>2. flt.done = 0
      BY <3>1, RecordsOf, QueueAssumption DEF SliceInv, Filters
    <3>3. Unseen' = SubSeq(<<>>, 0 + 1, 0)
      BY <1>1, <3>1, <3>2, EmptyFrames, OrderIsNext
    <3>4. Unseen' = <<>>
      BY <3>3, SubSeqEmpty
    <3>. QED
      BY <1>1, <2>1, <3>4, OrderedLess
  <2>. QED
    BY <2>2, <2>3
<1>5. CASE src.out = "sink" /\ MapRegion("source", "sink")
  <2>1. queue'["filter"] = queue["filter"] /\ queue'["sink"] \in {queue["sink"], <<>>}
    BY <1>5, SourceQueues, MapRegionIs, TwoQueues, TwoWriters
  <2>2. Unseen' = Unseen
    BY <1>1, <2>1 DEF Unseen
  <2>. QED
    BY <1>1, <2>1, <2>2, OrderedLess
<1>6. CASE SourceWrites
  <2>1. /\ src.out \in Queues /\ Puts(src.out, ThisFrame) /\ ThisFrame \in Frames
        /\ src.pc = "Camera"
    BY <1>6, SourceQueues, SourceAlone
  <2>2. AllBefore(Elements(stored) \cup Elements(queue["sink"]) \cup Elements(Unseen)
                    \cup {flt.acc}, {ThisFrame})
    <3>1. NextId = (run - 1) * MaxFrames + src.iframe
      BY <2>1 DEF PhaseInv, NextId
    <3>2. \A f \in All : \A i \in f : i < NextId
      BY DEF NumbersInv, All
    <3>3. AllBefore(All, {ThisFrame})
      BY <3>1, <3>2 DEF AllBefore, Before, ThisFrame
    <3>. QED
      BY <1>2, <3>3 DEF All, AllBefore
  <2>3. CASE src.out = "filter"
    <3>1. /\ queue'["sink"] = queue["sink"]
          /\ queue'["filter"] = Append(queue["filter"], ThisFrame)
      <4>1. /\ Puts("filter", ThisFrame) /\ Accepts("filter")
            /\ "filter" \in Queues /\ "sink" \in Queues /\ "sink" # "filter"
        BY <2>1, <2>3, TwoQueues DEF Accepts
      <4>2. /\ \A p \in Queues : p # "filter" => queue'[p] = queue[p]
            /\ queue'["filter"] = IF Accepts("filter") THEN Append(queue["filter"], ThisFrame)
                                  ELSE queue["filter"]
        BY <2>1, <4>1, PutsIs, Zenon
      <4>. QED
        BY <4>1, <4>2, Zenon
    <3>2. flt.done \in 0 .. Len(queue["filter"]) /\ queue["filter"] \in Seq(Frames)
      BY UnseenIs
    <3>3. Unseen' = Append(Unseen, ThisFrame)
      BY <1>1, <2>1, <3>1, <3>2, RestOfAppend, OrderIsNext DEF Unseen
    <3>. QED
      BY <1>1, <1>2, <2>1, <2>2, <3>1, <3>3, OrderedAcquired
  <2>4. CASE src.out = "sink"
    <3>1. flt.acc = {} /\ queue["filter"] = <<>>
      BY <2>4 DEF UnswitchedInv
    <3>2. queue'["filter"] = queue["filter"]
      BY <2>4, SourceQueues, TwoQueues
    <3>3. Unseen' = Unseen /\ Unseen = <<>>
      BY <1>1, <1>2, <3>1, <3>2, EmptyElements, ElementsOf DEF Unseen
    <3>4. queue'["sink"] \in {queue["sink"], Append(queue["sink"], ThisFrame)}
      BY <2>1, <2>4, PutsIs
    <3>. QED
      BY <1>1, <1>2, <2>1, <2>2, <3>1, <3>3, <3>4, OrderedAcquired
  <2>. QED
    BY <2>1, <2>3, <2>4 DEF Queues
<1>. QED
  BY <1>3, <1>4, <1>5, <1>6, SourceQueues, SourceAlone DEF Queues

LEMMA FilterOrder ==
  ASSUME TypeOK, PhaseInv, SliceInv, RegionInv, "switch" \notin mishaps, Filter, ~FilterFails,
         Ordered(stored, queue["sink"], flt.acc, Unseen)
  PROVE  Ordered(stored', queue'["sink"], flt'.acc, Unseen')
<1>1. UNCHANGED stored
  BY DEF Filter
<1>2. /\ stored \in Seq(Frames) /\ queue["sink"] \in Seq(Frames) /\ flt.acc \in Frames
      /\ Unseen \in Seq(Frames) /\ queue["filter"] \in Seq(Frames)
      /\ flt.done \in 0 .. Len(queue["filter"]) /\ Len(queue["filter"]) \in Nat
  BY UnseenIs, QueueTypes, TwoQueues, RecordsOf DEF TypeOK, Filters
<1>3. flt.done \in Nat /\ flt.mapped \in Nat
  BY RecordsOf, QueueAssumption DEF Filters
<1>4. CASE FilterLoops \/ FilterResets
  <2>1. UNCHANGED queue /\ flt'.done = flt.done /\ flt'.acc \in {flt.acc, {}}
    BY <1>4, FilterQueues, FilterMoves DEF FilterKeeps
  <2>2. Unseen' = Unseen
    BY <2>1 DEF Unseen
  <2>. QED
    BY <1>1, <2>1, <2>2, OrderedLess
<1>5. CASE FilterMaps
  <2>1. flt'.done = flt.done /\ flt'.acc = flt.acc
    BY <1>5, FilterMoves
  <2>2. CASE UNCHANGED queue
    BY <1>1, <2>1, <2>2 DEF Unseen
  <2>3. CASE Skip("filter")
    <3>1. queue'["filter"] = <<>> /\ queue'["sink"] = queue["sink"]
      BY <2>3, SkipIs, TwoQueues
    <3>2. Unseen' = SubSeq(<<>>, flt.done + 1, 0)
      BY <2>1, <3>1, EmptyFrames, OrderIsNext
    <3>3. Unseen' = <<>>
      BY <1>3, <3>2, SubSeqEmpty
    <3>. QED
      BY <1>1, <2>1, <3>1, <3>3, OrderedLess
  <2>. QED
    BY <1>5, <2>2, <2>3, FilterMoves DEF ReadNothing
<1>6. CASE FilterSees
  <2>1. HasFrame /\ flt'.done = flt.done + 1 /\ queue'["filter"] = queue["filter"]
    BY <1>6, FilterSeesIs, FilterQueues
  <2>2. /\ 1 <= Len(Unseen) /\ NextFrame = Unseen[1]
        /\ flt.done \in 0 .. Len(queue["filter"]) - 1
    <3>1. Len(Unseen) = Len(queue["filter"]) - flt.done
      BY UnseenIs
    <3>2. flt.done + 1 \in 1 .. Len(queue["filter"])
      BY <2>1, NextFrameIs
    <3>3. 1 \in 1 .. Len(queue["filter"]) - flt.done
      BY <1>2, <1>3, <3>2
    <3>4. NextFrame = Unseen[1]
      BY <3>3, UnseenIs DEF NextFrame
    <3>. QED
      BY <1>2, <1>3, <3>1, <3>2, <3>4
  <2>3. Unseen' = SubSeq(Unseen, 2, Len(Unseen))
    <3>1. Unseen' = SubSeq(queue["filter"], flt.done + 1 + 1, Len(queue["filter"]))
      BY <2>1, OrderIsNext
    <3>. QED
      BY <1>2, <2>2, <3>1, RestOfRest DEF Unseen
  <2>4. /\ Ordered(stored, queue["sink"], {}, Unseen')
        /\ Ordered(stored, queue["sink"], flt.acc \cup NextFrame, Unseen')
        /\ flt.acc = {} => Ordered(stored, queue["sink"], NextFrame, Unseen')
    <3>1. Ordered(stored, queue["sink"], {}, Unseen')
          /\ Ordered(stored, queue["sink"], flt.acc \cup NextFrame, Unseen')
      BY <1>2, <2>2, <2>3, OrderedSeen
    <3>2. flt.acc = {} => flt.acc \cup NextFrame = NextFrame
      OBVIOUS
    <3>. QED
      BY <3>1, <3>2
  <2>5. CASE FilterStartsWindow
    <3>1. /\ flt.acc = {} /\ flt'.acc \in {{}, NextFrame}
          /\ queue'["sink"] \in {queue["sink"], <<>>}
      BY <1>6, <2>5, FilterSeesIs, FilterQueues, MapRegionIs, TwoQueues, TwoWriters
    <3>2. Ordered(stored, queue["sink"], flt'.acc, Unseen')
      BY <2>4, <3>1
    <3>. QED
      BY <1>1, <3>1, <3>2, OrderedLess
  <2>6. CASE FilterAdds
    <3>1. CASE UNCHANGED queue /\ flt'.acc = flt.acc \cup NextFrame
      BY <1>1, <2>4, <3>1
    <3>2. CASE Publishes(flt.acc \cup NextFrame) /\ flt'.acc = {}
      <4>1. /\ flt.acc \cup NextFrame \in Frames
            /\ queue'["sink"] \in {queue["sink"], Append(queue["sink"], flt.acc \cup NextFrame)}
        BY <3>2, PutsIs, TwoQueues DEF Publishes
      <4>3. Ordered(stored, Append(queue["sink"], flt.acc \cup NextFrame), {}, Unseen')
        BY <1>2, <2>4, <4>1, OrderedPublished
      <4>. QED
        BY <1>1, <2>4, <3>2, <4>1, <4>3
    <3>. QED
      BY <2>6, <3>1, <3>2, FilterQueues, FilterAlone
  <2>7. CASE FilterDropsWindow
    <3>1. UNCHANGED queue /\ flt'.acc = {} /\ flt.acc # {}
      BY <1>6, <2>7, FilterSeesIs, FilterQueues
    <3>2. Ordered(stored, queue["sink"], {}, Unseen')
      BY <2>4, <3>1
    <3>. QED
      BY <1>1, <3>1, <3>2
  <2>. QED
    BY <1>6, <2>5, <2>6, <2>7 DEF FilterSees
<1>7. CASE FilterUnmaps
  <2>1. /\ flt.mapped \in 0 .. Len(queue["filter"]) /\ Consume("filter", flt.mapped)
        /\ flt'.done = 0 /\ flt'.acc = flt.acc /\ flt.done = flt.mapped
    BY <1>7, FilterQueues, FilterMoves DEF FilterUnmaps
  <2>2. /\ queue'["filter"] = Unseen /\ queue'["sink"] = queue["sink"]
    BY <2>1, ConsumeIs, TwoQueues DEF Unseen
  <2>3. Unseen' = SubSeq(Unseen, 0 + 1, Len(Unseen))
    BY <2>1, <2>2, OrderIsNext
  <2>4. Unseen' = Unseen
    BY <1>2, <2>3, SubSeqFull
  <2>. QED
    BY <1>1, <2>1, <2>2, <2>4
<1>8. CASE FilterExits
  <2>1. flt'.done = flt.done /\ queue'["filter"] = queue["filter"] /\ flt'.acc = {}
    BY <1>8, FilterMoves, FilterQueues DEF FilterKeeps
  <2>2. Unseen' = Unseen
    BY <2>1 DEF Unseen
  <2>3. CASE UNCHANGED queue
    BY <1>1, <2>1, <2>2, <2>3, OrderedLess
  <2>4. CASE Publishes(flt.acc)
    <3>1. queue'["sink"] \in {queue["sink"], Append(queue["sink"], flt.acc)}
      BY <2>4, PutsIs, TwoQueues DEF Publishes
    <3>2. Ordered(stored, Append(queue["sink"], flt.acc), {}, Unseen)
      BY <1>2, OrderedPublished
    <3>. QED
      BY <1>1, <2>1, <2>2, <3>1, <3>2, OrderedLess
  <2>. QED
    BY <1>8, <2>3, <2>4, FilterQueues, FilterAlone
<1>. QED
  BY <1>4, <1>5, <1>6, <1>7, <1>8 DEF Filter, FilterSees

LEMMA SinkOrder ==
  ASSUME TypeOK, Sink, Ordered(stored, queue["sink"], flt.acc, Unseen)
  PROVE  Ordered(stored', queue'["sink"], flt'.acc, Unseen')
<1>1. UNCHANGED flt /\ Unseen' = Unseen
  BY SinkQueues DEF Sink, Unseen
<1>2. /\ stored \in Seq(Frames) /\ queue["sink"] \in Seq(Frames) /\ Len(queue["sink"]) \in Nat
  BY QueueTypes, TwoQueues DEF TypeOK
<1>3. ASSUME NEW n \in 1 .. Len(queue["sink"]),
             stored' = stored \o SubSeq(queue["sink"], 1, n), Consume("sink", n)
      PROVE  Ordered(stored', queue'["sink"], flt'.acc, Unseen')
  <2>1. n \in 0 .. Len(queue["sink"])
    BY <1>2
  <2>2. queue'["sink"] = SubSeq(queue["sink"], n + 1, Len(queue["sink"]))
    BY <1>3, <2>1, ConsumeIs, TwoQueues
  <2>. QED
    BY <1>1, <1>2, <1>3, <2>1, <2>2, OrderedStored
<1>4. ASSUME Skip("sink"), UNCHANGED stored
      PROVE  Ordered(stored', queue'["sink"], flt'.acc, Unseen')
  BY <1>1, <1>4, SkipIs, TwoQueues, OrderedLess
<1>. QED
  BY <1>1, <1>3, <1>4, SinkQueues DEF Sink

LEMMA NextOrder ==
  ASSUME TypeOK, PhaseInv, SliceInv, RegionInv, NumbersInv, UnswitchedInv, OrderInv, Next
  PROVE  OrderInv'
<1> SUFFICES ASSUME mishaps' \cap Lasting = {}
             PROVE  Ordered(stored', queue'["sink"], flt'.acc, Unseen')
  BY OrderIsNext
<1>1. mishaps \cap Lasting = {}
  BY LastingStays
<1>2. Ordered(stored, queue["sink"], flt.acc, Unseen) /\ "switch" \notin mishaps
  BY <1>1, OrderIs DEF Lasting
<1>3. ~FilterFails
  BY DEF FilterFails, Happens, Lasting
<1>4. CASE Client
  <2>1. UNCHANGED queue /\ flt'.acc = flt.acc
    BY <1>4, ClientElements
  <2>2. flt'.done = flt.done
    <3>1. StartFilter => flt'.done = flt.done
      BY StartFilterIs DEF FilterKeeps
    <3>2. StartFilter \/ UNCHANGED flt
      BY <1>4 DEF Client, StartSink, StartSource, StartFails, Configure, CallStop, AbortCloses,
        Joined
    <3>. QED
      BY <3>1, <3>2
  <2>3. stored' \in {stored, <<>>}
    BY <1>4 DEF Client, StartSink, StartFilter, StartSource, StartFails, Configure, CallStop,
      AbortCloses, Joined
  <2>4. Unseen' = Unseen
    BY <2>1, <2>2 DEF Unseen
  <2>. QED
    BY <1>2, <2>1, <2>3, <2>4, OrderedLess
<1>. QED
  BY <1>2, <1>3, <1>4, SourceOrder, FilterOrder, SinkOrder DEF Next

-------------------------------------------------------------------------------
(* Without a mishap no frame is lost on its way to the sink.               *)

SinkWaits ==
  phase \in {"StartFilter", "StartSource"} => ~is_stopping["sink"] /\ snk \in {"Top", "Poll"}
SinkOpen == phase # "Armed" => is_accepting_writes /\ phase # "Closing"
SinkLast ==
  Started => ~is_stopping["source"] /\ (SinkStops => src.pc \in {"Clear", "Exited"})
SentArrive ==
  \A k \in 0 .. src.iframe - 1 :
    Sent(k) \in Elements(stored) \cup Elements(queue["sink"]) \cup skipped
AllSent == src.pc \in {"SigFilter", "SigSink", "Clear", "Exited"} => src.iframe = MaxFrames
NoneLeft == snk \in {"Stop", "Exited"} => queue["sink"] = <<>>
Unaveraged == (Started \/ phase = "Armed") /\ src.out = "sink"

LEMMA DeliveryIs ==
  /\ DeliveryInv <=> (mishaps = {} =>
       /\ SinkWaits /\ SinkOpen /\ SinkLast
       /\ Unaveraged => SentArrive /\ AllSent /\ NoneLeft)
  /\ DeliveryInv' <=> (mishaps' = {} =>
       /\ SinkWaits' /\ SinkOpen' /\ SinkLast'
       /\ Unaveraged' => SentArrive' /\ AllSent' /\ NoneLeft')
  BY DEF DeliveryInv, SinkWaits, SinkOpen, SinkLast, Unaveraged, SentArrive, AllSent, NoneLeft,
    SinkStops

\* Steps in which nothing goes wrong.
LEMMA CalmSteps ==
  ASSUME Next, mishaps' = {}, ~StartSink
  PROVE  /\ mishaps = {}
         /\ ~SourceFails /\ ~FilterFails /\ ~FilterDropsWindow /\ ~SinkFails
         /\ ~StartFails /\ ~Configure
         /\ \A what : ~Happens(what)
<1>1. mishaps = {}
  BY LastingStays
<1>2. \A what : ~Happens(what)
  BY DEF Happens
<1>. QED
  BY <1>1, <1>2 DEF SourceFails, FilterFails, FilterDropsWindow, SinkFails, StartFails, Configure

\* Who sets the flags of the source and of the sink.
LEMMA FlagsMove ==
  ASSUME TypeOK, Next, ~StartSink, mishaps' = {}
  PROVE  /\ is_stopping'["source"] \in {is_stopping["source"], FALSE}
         /\ StartSource => ~is_stopping'["source"]
         /\ \/ is_stopping'["sink"] = is_stopping["sink"]
            \/ Source /\ src.pc = "SigSink" /\ src'.pc = "Clear"
            \/ SinkExits
<1>1. CASE Source
  <2>1. UNCHANGED is_stopping \/ SourceSignals \/ SourceExits
    BY <1>1 DEF Source, SourceLoops, SourceAwaits, SourceMaps, SourceWrites, SourceAborts,
      SourceUnmaps, SourceFails, SourceFinishes, flags
  <2>2. SourceExits => /\ is_stopping'["source"] = FALSE
                       /\ is_stopping'["sink"] = is_stopping["sink"]
    BY StoreIs, ThreeThreads DEF SourceExits, Finish
  <2>3. Store(is_stopping, "filter", TRUE) =>
          /\ is_stopping'["source"] = is_stopping["source"]
          /\ is_stopping'["sink"] = is_stopping["sink"]
    BY StoreIs, ThreeThreads
  <2>4. Store(is_stopping, "sink", TRUE) => is_stopping'["source"] = is_stopping["source"]
    BY StoreIs, ThreeThreads
  <2>5. ~StartSource
    BY <1>1 DEF Source, setup, StartSource
  <2>. QED
    BY <1>1, <2>1, <2>2, <2>3, <2>4, <2>5, SourceGoes
<1>2. CASE Filter
  <2>1. UNCHANGED is_stopping \/ FilterExits
    BY <1>2 DEF Filter, FilterLoops, FilterMaps, FilterStartsWindow, FilterAdds,
      FilterDropsWindow, FilterFails, FilterUnmaps, FilterResets, flags
  <2>2. FilterExits => /\ is_stopping'["source"] = is_stopping["source"]
                       /\ is_stopping'["sink"] = is_stopping["sink"]
    BY StoreIs, ThreeThreads DEF FilterExits, Finish
  <2>3. ~StartSource
    BY <1>2 DEF Filter, setup, StartSource
  <2>. QED
    BY <2>1, <2>2, <2>3
<1>3. CASE Sink
  <2>1. UNCHANGED is_stopping \/ SinkExits
    BY <1>3, CalmSteps DEF Sink, SinkLoops, SinkAppends, SinkFindsNothing, flags
  <2>2. SinkExits => is_stopping'["source"] = is_stopping["source"]
    BY StoreIs, ThreeThreads DEF SinkExits, Finish
  <2>3. ~StartSource
    BY <1>3 DEF Sink, setup, StartSource
  <2>. QED
    BY <2>1, <2>2, <2>3
<1>4. CASE Client
  <2>1. StartFilter => /\ is_stopping'["source"] = is_stopping["source"]
                       /\ is_stopping'["sink"] = is_stopping["sink"] /\ ~StartSource
    BY LaunchIs, ThreeThreads DEF StartFilter, StartSource
  <2>2. StartSource => /\ is_stopping'["source"] = FALSE
                       /\ is_stopping'["sink"] = is_stopping["sink"]
    BY LaunchIs, ThreeThreads DEF StartSource
  <2>3. CallStop \/ AbortCloses \/ Joined => UNCHANGED is_stopping /\ ~StartSource
    BY CalmSteps DEF CallStop, AbortCloses, Joined, StartSource, flags
  <2>. QED
    BY <1>4, <2>1, <2>2, <2>3, CalmSteps DEF Client
<1>. QED
  BY <1>1, <1>2, <1>3, <1>4 DEF Next

\* What the client does in the course of a run.
LEMMA ClientGoes ==
  ASSUME Client, ~StartSink, mishaps' = {}
  PROVE  /\ UNCHANGED <<snk, queue, skipped, stored, run>>
         /\ \/ StartFilter /\ phase = "StartFilter" /\ phase' = "StartSource"
            \/ StartSource /\ phase = "StartSource" /\ phase' = "Started"
            \/ UNCHANGED src /\ Started /\ (Started' \/ phase' = "Armed")
         /\ phase # "Closing" => phase' # "Closing"
         /\ phase' # "Armed" /\ phase # "Closing" => UNCHANGED is_accepting_writes
<1>1. ~StartFails /\ ~Configure /\ \A what : ~Happens(what)
  BY CalmSteps DEF Next
<1>2. UNCHANGED <<queue, skipped>>
  BY DEF Client, queues
<1>3. StartFilter \/ StartSource \/ CallStop \/ AbortCloses \/ Joined
  BY <1>1 DEF Client
<1>4. UNCHANGED <<snk, stored, run>>
  BY <1>3 DEF StartFilter, StartSource, CallStop, AbortCloses, Joined
<1>5. CASE StartFilter
  <2>1. /\ phase = "StartFilter" /\ phase' = "StartSource"
        /\ UNCHANGED is_accepting_writes
    BY <1>5 DEF StartFilter
  <2>. QED
    BY <1>2, <1>4, <1>5, <2>1
<1>7. CASE StartSource
  <2>1. /\ phase = "StartSource" /\ phase' = "Started"
        /\ UNCHANGED is_accepting_writes
    BY <1>7 DEF StartSource
  <2>. QED
    BY <1>2, <1>4, <1>7, <2>1
<1>6. CASE CallStop \/ AbortCloses \/ Joined
  <2>1. UNCHANGED src /\ Started /\ (Started' \/ phase' = "Armed")
    BY <1>6 DEF CallStop, AbortCloses, Joined, Started
  <2>2. phase # "Closing" => phase' # "Closing"
    BY <1>1, <1>6 DEF CallStop, AbortCloses, Joined
  <2>3. phase' # "Armed" /\ phase # "Closing" => UNCHANGED is_accepting_writes
    BY <1>6 DEF CallStop, AbortCloses, Joined
  <2>. QED
    BY <1>2, <1>4, <2>1, <2>2, <2>3
<1>. QED
  BY <1>3, <1>5, <1>6, <1>7

LEMMA SinkWaitsOn ==
  ASSUME TypeOK, PhaseInv, Next, ~StartSink, mishaps' = {}, SinkWaits
  PROVE  SinkWaits'
<1> SUFFICES ASSUME phase' \in {"StartFilter", "StartSource"}
             PROVE  ~is_stopping'["sink"] /\ snk' \in {"Top", "Poll"}
  BY DEF SinkWaits
<1>1. CASE Source
  <2>1. phase' = phase /\ src.pc # "Exited"
    BY <1>1 DEF Source, setup, SourceLoops, SourceAwaits, SourceMaps, SourceWrites,
      SourceAborts, SourceUnmaps, SourceFails, SourceFinishes, SourceSignals, SourceExits
  <2>. QED
    BY <2>1 DEF PhaseInv
<1>2. CASE Filter
  <2>1. UNCHANGED <<phase, snk, src>> /\ ~SinkExits
    BY <1>2 DEF Filter, setup, SinkExits
  <2>2. is_stopping'["sink"] = is_stopping["sink"]
    BY <2>1, FlagsMove
  <2>. QED
    BY <2>1, <2>2 DEF SinkWaits
<1>3. CASE Sink
  <2>1. UNCHANGED <<phase, src>>
    BY <1>3 DEF Sink, setup
  <2>2. snk \in {"Top", "Poll"} /\ ~is_stopping["sink"]
    BY <2>1 DEF SinkWaits
  <2>3. ~SinkExits /\ ~SinkFails
    BY <2>2, CalmSteps DEF SinkExits
  <2>4. is_stopping'["sink"] = is_stopping["sink"]
    BY <2>1, <2>3, FlagsMove
  <2>5. snk' \in {"Top", "Poll"}
    BY <1>3, <2>2, <2>3, CalmSteps DEF Sink, SinkLoops, SinkAppends, SinkFindsNothing,
      Reading
  <2>. QED
    BY <2>2, <2>4, <2>5
<1>4. CASE Client
  <2>1. UNCHANGED snk /\ phase = "StartFilter" /\ StartFilter
    BY <1>4, ClientGoes DEF Started
  <2>2. is_stopping'["sink"] = is_stopping["sink"]
    BY <2>1, LaunchIs, ThreeThreads DEF StartFilter
  <2>. QED
    BY <2>1, <2>2 DEF SinkWaits
<1>. QED
  BY <1>1, <1>2, <1>3, <1>4 DEF Next

LEMMA SinkOpenOn ==
  ASSUME Next, ~StartSink, mishaps' = {}, SinkOpen
  PROVE  SinkOpen'
<1>1. Source \/ Filter \/ Sink => UNCHANGED <<phase, is_accepting_writes>>
  BY DEF Source, Filter, Sink, setup
<1>2. CASE Source \/ Filter \/ Sink
  BY <1>1, <1>2 DEF SinkOpen
<1>3. CASE Client
  <2>1. phase # "Armed"
    BY <1>3, ClientGoes DEF Started
  <2>. QED
    BY <1>3, <2>1, ClientGoes DEF SinkOpen
<1>. QED
  BY <1>2, <1>3 DEF Next

\* The source is the last to be told to stop, and the sink is told by it.
LEMMA SinkLastOn ==
  ASSUME TypeOK, PhaseInv, Next, ~StartSink, mishaps' = {}, SinkWaits, SinkLast
  PROVE  SinkLast'
<1> SUFFICES ASSUME Started'
             PROVE  ~is_stopping'["source"] /\ (SinkStops' => src'.pc \in {"Clear", "Exited"})
  BY DEF SinkLast
<1>1. CASE Source
  <2>1. UNCHANGED <<phase, snk>>
    BY <1>1 DEF Source, setup
  <2>2. Started
    BY <2>1 DEF Started
  <2>3. ~is_stopping'["source"]
    BY <2>2, FlagsMove DEF SinkLast
  <2>4. ASSUME SinkStops PROVE src'.pc \in {"Clear", "Exited"}
    <3>1. src.pc \in {"Clear", "Exited"}
      BY <2>2, <2>4 DEF SinkLast
    <3>2. SourceExits
      BY <1>1, <3>1 DEF Source, SourceLoops, SourceAwaits, SourceMaps, SourceWrites,
        SourceAborts, SourceUnmaps, SourceFails, SourceFinishes, SourceSignals
    <3>. QED
      BY <3>2, SourceGoes
  <2>5. ~SinkExits
    BY <2>1 DEF SinkExits
  <2>6. SinkStops' => SinkStops \/ src'.pc = "Clear"
    BY <2>1, <2>5, FlagsMove DEF SinkStops
  <2>. QED
    BY <2>3, <2>4, <2>6
<1>2. CASE Filter
  <2>1. UNCHANGED <<phase, snk, src>> /\ ~SinkExits
    BY <1>2 DEF Filter, setup, SinkExits
  <2>. QED
    BY <2>1, FlagsMove DEF SinkLast, SinkStops, Started
<1>3. CASE Sink
  <2>1. UNCHANGED <<phase, src>>
    BY <1>3 DEF Sink, setup
  <2>2. SinkStops' => SinkStops
    <3>1. CASE SinkExits
      BY <3>1 DEF SinkExits, SinkStops
    <3>2. CASE ~SinkExits
      <4>1. is_stopping'["sink"] = is_stopping["sink"]
        BY <2>1, <3>2, FlagsMove
      <4>2. CASE SinkLoops
        BY <4>1, <4>2, CalmSteps DEF SinkLoops, SinkStops
      <4>3. CASE SinkAppends \/ SinkFindsNothing
        BY <4>1, <4>3 DEF SinkAppends, SinkFindsNothing, Reading, SinkStops
      <4>. QED
        BY <1>3, <3>2, <4>2, <4>3, CalmSteps DEF Sink
    <3>. QED
      BY <3>1, <3>2
  <2>. QED
    BY <2>1, <2>2, FlagsMove DEF SinkLast, Started
<1>4. CASE Client
  <2>1. UNCHANGED snk /\ ~SinkExits
    BY <1>4, ClientGoes DEF SinkExits
  <2>2. SinkStops' => SinkStops \/ src'.pc = "Clear"
    BY <2>1, FlagsMove DEF SinkStops
  <2>3. CASE StartSource /\ phase = "StartSource"
    <3>1. ~is_stopping'["source"]
      BY <2>3, FlagsMove
    <3>2. ~SinkStops
      BY <2>3 DEF SinkWaits, SinkStops
    <3>. QED
      BY <2>2, <3>1, <3>2
  <2>4. CASE UNCHANGED src /\ Started
    <3>1. ~is_stopping'["source"]
      BY <2>4, FlagsMove DEF SinkLast
    <3>. QED
      BY <2>2, <2>4, <3>1 DEF SinkLast
  <2>5. phase' # "StartSource"
    BY DEF Started
  <2>. QED
    BY <1>4, <2>3, <2>4, <2>5, ClientGoes
<1>. QED
  BY <1>1, <1>2, <1>3, <1>4 DEF Next

\* What is on its way to storage stays there, or is skipped.
Arriving == Elements(stored) \cup Elements(queue["sink"]) \cup skipped

LEMMA ArrivingStays ==
  ASSUME TypeOK, PhaseInv, SliceInv, RegionInv, Next, ~StartSink, mishaps' = {}
  PROVE  /\ Arriving \subseteq Arriving'
         /\ Source /\ SourceWrites /\ src.out = "sink" /\ is_accepting_writes =>
              ThisFrame \in Arriving'
<1>1. ASSUME NEW w \in Writers, MapRegion(w, "sink"), UNCHANGED stored
      PROVE  Arriving \subseteq Arriving'
  <2>1. skipped \cup Elements(queue["sink"]) = skipped' \cup Elements(queue'["sink"])
    BY <1>1, MapRegionIs, TwoQueues
  <2>. QED
    BY <1>1, <2>1 DEF Arriving
<1>2. ASSUME NEW w \in Writers, MapRegion(w, "filter"), UNCHANGED stored
      PROVE  Arriving \subseteq Arriving'
  <2>1. skipped \subseteq skipped' /\ queue'["sink"] = queue["sink"]
    BY <1>2, MapRegionIs, TwoQueues
  <2>. QED
    BY <1>2, <2>1 DEF Arriving
<1>3. ASSUME NEW q \in Queues, NEW f \in Frames, Puts(q, f), UNCHANGED <<stored, skipped>>
      PROVE  Arriving \subseteq Arriving' /\ (q = "sink" /\ Accepts(q) => f \in Arriving')
  <2>1. Elements(queue'[q]) = Elements(queue[q]) \cup (IF Accepts(q) THEN {f} ELSE {})
    BY <1>3, PutsIs
  <2>2. q # "sink" => queue'["sink"] = queue["sink"]
    BY <1>3, PutsIs, TwoQueues
  <2>. QED
    BY <1>3, <2>1, <2>2 DEF Arriving
<1>4. ASSUME UNCHANGED <<stored, queue, skipped>> PROVE Arriving \subseteq Arriving'
  BY <1>4 DEF Arriving
<1>10. "switch" \notin mishaps
  BY CalmSteps
<1>9. Source /\ SourceWrites /\ src.out = "sink" /\ is_accepting_writes =>
         ThisFrame \in Arriving'
  <2> SUFFICES ASSUME Source, SourceWrites, src.out = "sink", is_accepting_writes
               PROVE  ThisFrame \in Arriving'
    OBVIOUS
  <2>1. Puts("sink", ThisFrame) /\ ThisFrame \in Frames /\ UNCHANGED <<stored, skipped>>
    BY <1>10, SourceQueues, SourceAlone DEF Source
  <2>. QED
    BY <1>3, <2>1, TwoQueues DEF Accepts
<1> SUFFICES Arriving \subseteq Arriving'
  BY <1>9
<1>5. CASE Source
  <2>1. UNCHANGED stored
    BY <1>5 DEF Source
  <2>2. CASE SourceMaps
    BY <1>1, <1>2, <1>4, <1>5, <2>1, <2>2, SourceQueues, TwoWriters
      DEF Queues, SourceMaps, SourceWrites
  <2>3. CASE SourceWrites
    <3>1. Puts(src.out, ThisFrame) /\ ThisFrame \in Frames /\ src.out \in Queues
          /\ UNCHANGED skipped
      BY <1>5, <1>10, <2>3, SourceQueues, SourceAlone
    <3>. QED
      BY <1>3, <2>1, <3>1 DEF Accepts
  <2>. QED
    BY <1>4, <1>5, <1>10, <2>1, <2>2, <2>3, SourceAlone
<1>6. CASE Filter
  <2>1. UNCHANGED stored
    BY <1>6 DEF Filter, setup
  <2>2. ASSUME NEW f, Commits(f) PROVE Arriving \subseteq Arriving'
    <3>1. Publishes(f)
      BY <1>10, <2>2, FilterAlone
    <3>. QED
      BY <1>3, <2>1, <3>1, TwoQueues DEF Publishes
  <2>3. CASE FilterLoops \/ FilterResets
    BY <1>4, <1>6, <2>1, <2>3, FilterQueues
  <2>4. CASE FilterStartsWindow
    BY <1>1, <1>4, <1>6, <2>1, <2>4, FilterQueues, TwoWriters
  <2>5. CASE FilterAdds
    BY <1>4, <1>6, <2>1, <2>2, <2>5, FilterQueues
  <2>6. CASE FilterExits
    BY <1>4, <1>6, <2>1, <2>2, <2>6, FilterQueues
  <2>7. CASE FilterUnmaps
    <3>1. queue'["sink"] = queue["sink"] /\ UNCHANGED skipped
      BY <1>6, <2>7, FilterQueues, ConsumeIs, TwoQueues
    <3>. QED
      BY <2>1, <3>1 DEF Arriving
  <2>8. CASE FilterMaps
    <3>1. ASSUME Skip("filter") PROVE Arriving \subseteq Arriving'
      <4>1. queue'["sink"] = queue["sink"] /\ skipped \subseteq skipped'
        BY <3>1, SkipIs, TwoQueues
      <4>. QED
        BY <2>1, <4>1 DEF Arriving
    <3>. QED
      BY <1>4, <2>1, <2>8, <3>1, FilterMoves DEF ReadNothing
  <2>. QED
    BY <1>6, <2>3, <2>4, <2>5, <2>6, <2>7, <2>8, CalmSteps DEF Filter
<1>7. CASE Sink
  <2>1. ASSUME NEW n \in 1 .. Len(queue["sink"]), UNCHANGED skipped,
               stored' = stored \o SubSeq(queue["sink"], 1, n), Consume("sink", n)
        PROVE  Arriving \subseteq Arriving'
    <3>1. Elements(stored) \cup Elements(queue["sink"])
            = Elements(stored') \cup Elements(queue'["sink"])
      BY <2>1, AppendIs
    <3>. QED
      BY <2>1, <3>1 DEF Arriving
  <2>2. ASSUME Skip("sink"), UNCHANGED stored PROVE Arriving \subseteq Arriving'
    <3>1. skipped' = skipped \cup Elements(queue["sink"])
      BY <2>2, SkipIs, TwoQueues
    <3>. QED
      BY <2>2, <3>1 DEF Arriving
  <2>. QED
    BY <1>4, <1>7, <2>1, <2>2, SinkQueues DEF Sink
<1>8. CASE Client
  BY <1>4, <1>8, ClientGoes
<1>. QED
  BY <1>5, <1>6, <1>7, <1>8 DEF Next

\* A run that is not averaged was not, or its source writes its first frame.
LEMMA UnaveragedWas ==
  ASSUME TypeOK, PhaseInv, UnswitchedInv, Next, ~StartSink, mishaps' = {}, Unaveraged'
  PROVE  /\ UNCHANGED run /\ queue["filter"] = <<>> /\ flt.acc = {}
         /\ \/ Unaveraged /\ UNCHANGED src /\ ~Source
            \/ Unaveraged /\ Source /\ Started
            \/ Source /\ Started /\ src.out = "none" /\ src.iframe = 0 /\ SourceLoops
<1>1. UNCHANGED enable_filter /\ "switch" \notin mishaps
  BY LastingStays, CalmSteps
<1>2. CASE Source
  <2>1. UNCHANGED <<phase, run>>
    BY <1>2 DEF Source, setup
  <2>2. src.pc # "Exited"
    BY <1>2 DEF Source, SourceLoops, SourceAwaits, SourceMaps, SourceWrites, SourceAborts,
      SourceUnmaps, SourceFails, SourceFinishes, SourceSignals, SourceExits
  <2>3. Started
    BY <2>1, <2>2 DEF PhaseInv, Unaveraged, Started
  <2>4. CASE SourceLoops
    <3>1. ~enable_filter
      BY <2>4, SourceMoves DEF Unaveraged
    <3>2. src.out \in {"none", "sink"} /\ queue["filter"] = <<>> /\ flt.acc = {}
      BY <1>1, <3>1 DEF UnswitchedInv
    <3>. QED
      BY <1>2, <2>1, <2>3, <2>4, <3>2 DEF Unaveraged, PhaseInv
  <2>5. CASE ~SourceLoops
    <3>1. src.out = "sink"
      BY <1>2, <2>5, SourceMoves DEF Unaveraged
    <3>2. queue["filter"] = <<>> /\ flt.acc = {}
      BY <1>1, <3>1 DEF UnswitchedInv
    <3>. QED
      BY <1>2, <2>1, <2>3, <3>1, <3>2 DEF Unaveraged
  <2>. QED
    BY <2>4, <2>5
<1>3. CASE ~Source
  <2>1. UNCHANGED <<src, run>> /\ (Started \/ phase = "Armed")
    <3>1. CASE Filter \/ Sink
      BY <3>1 DEF Filter, Sink, setup, Unaveraged, Started
    <3>2. CASE Client
      <4>1. phase' # "StartSource" /\ src'.out = "sink"
        BY DEF Unaveraged, Started
      <4>. QED
        BY <3>2, <4>1, ClientGoes, StartSourceIs
    <3>. QED
      BY <1>3, <3>1, <3>2 DEF Next
  <2>2. Unaveraged
    BY <2>1 DEF Unaveraged
  <2>3. queue["filter"] = <<>> /\ flt.acc = {}
    BY <1>1, <2>2 DEF UnswitchedInv, Unaveraged
  <2>. QED
    BY <1>3, <2>1, <2>2, <2>3
<1>. QED
  BY <1>2, <1>3

LEMMA SentArriveOn ==
  ASSUME TypeOK, PhaseInv, SliceInv, RegionInv, UnswitchedInv, Next, ~StartSink, mishaps' = {},
         Unaveraged', SinkOpen, Unaveraged => SentArrive
  PROVE  SentArrive'
<1> SUFFICES ASSUME NEW k \in 0 .. src'.iframe - 1 PROVE Sent(k)' \in Arriving'
  BY DEF SentArrive, Arriving
<1>1. UNCHANGED run /\ Sent(k)' = Sent(k) /\ Arriving \subseteq Arriving'
  BY UnaveragedWas, ArrivingStays DEF Sent
<1>2. src.iframe \in Nat /\ k \in Nat /\ k <= src'.iframe - 1
  BY RecordsOf, UnaveragedWas, SourceMoves, FramesAssumption DEF Sources
<1>3. CASE Unaveraged /\ k \in 0 .. src.iframe - 1
  BY <1>1, <1>3 DEF SentArrive, Arriving
<1>4. CASE Source /\ Started /\ Unaveraged /\ ~(k \in 0 .. src.iframe - 1)
  <2>1. SourceWrites /\ k = src.iframe
    BY <1>2, <1>4, SourceMoves
  <2>2. ThisFrame = Sent(k)
    BY <2>1 DEF ThisFrame, Sent
  <2>3. is_accepting_writes /\ src.out = "sink"
    BY <1>4 DEF SinkOpen, Unaveraged, Started
  <2>. QED
    BY <1>1, <1>4, <2>1, <2>2, <2>3, ArrivingStays
<1>5. CASE SourceLoops /\ src.iframe = 0
  BY <1>2, <1>5, SourceMoves
<1>. QED
  BY <1>2, <1>3, <1>4, <1>5, UnaveragedWas

\* The source ends its loop with the last frame, and not before.
LEMMA AllSentOn ==
  ASSUME TypeOK, PhaseInv, UnswitchedInv, Next, ~StartSink, mishaps' = {}, Unaveraged', SinkLast,
         Unaveraged => AllSent
  PROVE  AllSent'
<1> SUFFICES ASSUME src'.pc \in {"SigFilter", "SigSink", "Clear", "Exited"}
             PROVE  src'.iframe = MaxFrames
  BY DEF AllSent
<1>1. CASE Unaveraged /\ UNCHANGED src
  BY <1>1 DEF AllSent
<1>2. CASE Source /\ Started /\ (Unaveraged \/ SourceLoops)
  <2>1. CASE SourceFinishes
    <3>1. ~MoreFrames /\ ~is_stopping["source"] /\ src'.iframe = src.iframe
      BY <1>2, <2>1, GotoIs DEF SourceFinishes, SinkLast
    <3>2. src.iframe \in 0 .. MaxFrames
      BY RecordsOf DEF Sources
    <3>. QED
      BY <3>1, <3>2, FramesAssumption DEF MoreFrames
  <2>2. CASE SourceSignals \/ SourceExits
    <3>1. src.pc \in {"SigFilter", "SigSink", "Clear"}
      BY <2>2 DEF SourceSignals, SourceExits
    <3>2. ~SourceWrites /\ ~SourceLoops
      BY <3>1 DEF SourceWrites, SourceLoops
    <3>. QED
      BY <1>2, <3>1, <3>2, SourceMoves DEF AllSent
  <2>3. SourceLoops \/ SourceAwaits \/ SourceMaps \/ SourceWrites \/ SourceAborts \/ SourceUnmaps
          => src'.pc \notin {"SigFilter", "SigSink", "Clear", "Exited"}
    BY SourceGoes, SourceMoves
  <2>. QED
    BY <1>2, <2>1, <2>2, <2>3, CalmSteps DEF Source
<1>. QED
  BY <1>1, <1>2, UnaveragedWas

\* When the sink is past its flush, nobody writes to it any more.
LEMMA NoneLeftOn ==
  ASSUME TypeOK, PhaseInv, SliceInv, UnswitchedInv, Next, ~StartSink, mishaps' = {}, Unaveraged',
         SinkLast, Unaveraged => NoneLeft
  PROVE  NoneLeft'
<1> SUFFICES ASSUME snk' \in {"Stop", "Exited"} PROVE queue'["sink"] = <<>>
  BY DEF NoneLeft
<1>1. queue["filter"] = <<>> /\ flt.acc = {}
  BY UnaveragedWas
<1>2. CASE Source
  <2>1. UNCHANGED snk /\ Started
    BY <1>2, UnaveragedWas DEF Source
  <2>2. src.pc \in {"Clear", "Exited"}
    BY <2>1 DEF SinkLast, SinkStops
  <2>3. ~SourceMaps /\ ~SourceWrites /\ ~SourceUnmaps /\ ~SourceLoops
    BY <2>2 DEF SourceMaps, SourceWrites, SourceUnmaps, SourceLoops
  <2>4. Unaveraged /\ UNCHANGED queue
    BY <1>2, <2>3, UnaveragedWas, SourceQueues
  <2>. QED
    BY <2>1, <2>4 DEF NoneLeft
<1>3. CASE Filter
  <2>1. ~HasFrame /\ ~FilterFails
    BY <1>1, <1>3, IdleStays
  <2>2. FilterLoops \/ FilterMaps \/ FilterUnmaps \/ FilterResets \/ FilterExits
    BY <1>3, <2>1 DEF Filter, FilterStartsWindow, FilterAdds, FilterDropsWindow
  <2>3. queue'["sink"] = queue["sink"]
    <3>1. CASE FilterLoops \/ FilterResets
      BY <1>3, <3>1, FilterQueues
    <3>2. CASE FilterMaps
      BY <3>2, FilterMoves, SkipIs, TwoQueues DEF ReadNothing
    <3>3. CASE FilterUnmaps
      BY <1>3, <3>3, FilterQueues, ConsumeIs, TwoQueues
    <3>4. CASE FilterExits
      BY <1>1, <1>3, <3>4, FilterQueues
    <3>. QED
      BY <2>2, <3>1, <3>2, <3>3, <3>4
  <2>4. UNCHANGED <<snk, src, phase>>
    BY <1>3 DEF Filter, setup
  <2>. QED
    BY <2>3, <2>4 DEF NoneLeft, Unaveraged, Started
<1>4. CASE Sink
  <2>1. UNCHANGED <<src, phase>>
    BY <1>4 DEF Sink, setup
  <2>2. CASE SinkFindsNothing
    BY <1>4, <2>2, SinkQueues, SkipIs, TwoQueues
  <2>3. CASE SinkExits
    <3>1. UNCHANGED queue /\ snk = "Stop"
      BY <1>4, <2>3, SinkQueues DEF SinkExits
    <3>. QED
      BY <2>1, <3>1 DEF NoneLeft, Unaveraged, Started
  <2>4. ~SinkLoops /\ ~SinkAppends
    BY CalmSteps DEF SinkLoops, SinkAppends, Reading
  <2>. QED
    BY <1>4, <2>2, <2>3, <2>4, CalmSteps DEF Sink
<1>5. CASE Client
  <2>1. UNCHANGED <<snk, queue>>
    BY <1>5, ClientGoes
  <2>2. Unaveraged
    <3>1. phase' # "StartSource" /\ src'.out = "sink"
      BY DEF Unaveraged, Started
    <3>. QED
      BY <1>5, <3>1, ClientGoes, StartSourceIs DEF Unaveraged
  <2>. QED
    BY <2>1, <2>2 DEF NoneLeft
<1>. QED
  BY <1>2, <1>3, <1>4, <1>5 DEF Next

LEMMA NextDelivery ==
  ASSUME TypeOK, PhaseInv, SliceInv, RegionInv, UnswitchedInv, DeliveryInv, Next
  PROVE  DeliveryInv'
<1> SUFFICES ASSUME mishaps' = {}
             PROVE  /\ SinkWaits' /\ SinkOpen' /\ SinkLast'
                    /\ Unaveraged' => SentArrive' /\ AllSent' /\ NoneLeft'
  BY DeliveryIs
<1>1. CASE StartSink
  <2>1. phase' = "StartFilter" /\ is_accepting_writes' = TRUE /\ snk' = "Top"
    BY <1>1 DEF StartSink
  <2>2. ~is_stopping'["sink"]
    BY <1>1, LaunchIs, ThreeThreads DEF StartSink
  <2>. QED
    BY <2>1, <2>2 DEF SinkWaits, SinkOpen, SinkLast, Unaveraged, Started
<1>2. CASE ~StartSink
  <2>1. /\ SinkWaits /\ SinkOpen /\ SinkLast
        /\ Unaveraged => SentArrive /\ AllSent /\ NoneLeft
    BY <1>2, CalmSteps, DeliveryIs
  <2>. QED
    BY <1>2, <2>1, SinkWaitsOn, SinkOpenOn, SinkLastOn, SentArriveOn, AllSentOn, NoneLeftOn
<1>. QED
  BY <1>1, <1>2

-------------------------------------------------------------------------------
(* The invariant and what follows from it.                                 *)

LEMMA InitHolds ==
  ASSUME Init
  PROVE  StreamIInv
<1>1. queue["filter"] = <<>> /\ queue["sink"] = <<>> /\ stored = <<>>
  BY DEF Init, Queues
<1>2. Elements(<<>>) = {} /\ DOMAIN <<>> = {} /\ Len(<<>>) = 0 /\ <<>> \in Seq(Frames)
  BY EmptyElements, EmptyFrames, LenProperties DEF Elements
<1>3. TypeOK
  <2>1. /\ src \in [pc : {"Exited", "Top", "Await", "Map", "Camera", "Unmap", "SigFilter",
                          "SigSink", "Clear"},
                    iframe : 0 .. MaxFrames, out : Queues \cup {"none"}, early : BOOLEAN]
    BY FramesAssumption DEF Init
  <2>2. flt \in [pc : {"Exited", "Top", "Map", "Frames", "Reset", "Publish"},
                 mapped : 0 .. QueueFrames, done : 0 .. QueueFrames,
                 acc : Frames, last : BOOLEAN, left : BOOLEAN]
    BY QueueAssumption DEF Init, Frames
  <2>3. /\ queue \in [Queues -> Seq(Frames)] /\ \A q \in Queues : Len(queue[q]) <= QueueFrames
        /\ mapped \in [Queues -> SUBSET {"source", "filter"}]
    BY <1>2, QueueAssumption DEF Init
  <2>4. /\ phase = "Armed" /\ snk = "Exited" /\ stored \in Seq(Frames)
        /\ skipped \subseteq Frames /\ mishaps \subseteq Faults /\ readers \subseteq Queues
        /\ run \in 0 .. MaxRuns
    BY <1>2, RunsAssumption DEF Init
  <2>5. /\ enable_filter \in BOOLEAN /\ is_accepting_writes \in BOOLEAN
        /\ sig_accumulator_reset \in BOOLEAN /\ reset_event \in BOOLEAN
        /\ is_stopping \in [Threads -> BOOLEAN] /\ is_running \in [Threads -> BOOLEAN]
    BY DEF Init
  <2>. QED
    BY <2>1, <2>2, <2>3, <2>4, <2>5 DEF TypeOK
<1>4. PhaseInv /\ SliceInv
  BY <1>1, <1>2, QueueAssumption DEF Init, PhaseInv, SliceInv
<1>5. RegionInv
  BY DEF Init, RegionInv
<1>6. FramesInv /\ NumbersInv
  BY <1>1, <1>2 DEF Init, FramesInv, NumbersInv
<1>7. UnswitchedInv /\ SignalsInv /\ ResetInv
  BY <1>1 DEF Init, UnswitchedInv, SignalsInv, ResetInv
<1>8. WindowsInv
  BY <1>1, <1>2 DEF Init, WindowsInv
<1>9. OrderInv
  <2>1. Elements(Unseen) = {} /\ Unseen \in Seq(Frames)
    BY <1>1, <1>2, <1>3, <1>4, UnseenIs
  <2>2. Unseen = <<>>
    BY <2>1, ElementsOf
  <2>. QED
    BY <1>1, <2>1, <2>2, InOrderEmpty DEF Init, OrderInv, AllBefore
<1>10. DeliveryInv
  BY DEF Init, DeliveryInv, Started
<1>. QED
  BY <1>3, <1>4, <1>5, <1>6, <1>7, <1>8, <1>9, <1>10 DEF StreamIInv

LEMMA NextKeeps ==
  ASSUME StreamIInv, Next
  PROVE  StreamIInv'
<1>1. /\ TypeOK /\ PhaseInv /\ SliceInv /\ RegionInv /\ FramesInv /\ NumbersInv /\ UnswitchedInv
      /\ SignalsInv /\ ResetInv /\ WindowsInv /\ OrderInv /\ DeliveryInv
  BY DEF StreamIInv
<1>2. Typed'
  BY <1>1, SourceTyped, FilterTyped, SinkTyped, ClientTyped DEF Next
<1>3. PhaseInv'
  BY <1>1, SourcePhase, FilterPhase, SinkPhase, ClientPhase DEF Next
<1>4. SliceInv'
  BY <1>1, SourceSlice, FilterSlice, SinkSlice, ClientSlice DEF Next
<1>5. RegionInv'
  BY <1>1, NextRegion
<1>6. FramesInv'
  BY <1>1, SourceFrames, FilterFrames, SinkFrames, ClientFrames DEF Next
<1>7. ResetInv'
  BY <1>1, SourceReset, FilterReset, SinkReset, ClientReset DEF Next
<1>8. NumbersInv' /\ UnswitchedInv' /\ SignalsInv' /\ WindowsInv' /\ OrderInv' /\ DeliveryInv'
  BY <1>1, NextNumbers, NextUnswitched, NextSignals, NextWindows, NextOrder, NextDelivery
<1>9. TypeOK'
  <2>1. \A q \in Queues : Len(queue'[q]) <= QueueFrames
    BY <1>1, NextRoom, RegionIs
  <2>. QED
    BY <1>2, <2>1, TypeIsNext
<1>. QED
  BY <1>3, <1>4, <1>5, <1>6, <1>7, <1>8, <1>9 DEF StreamIInv

LEMMA StutterKeeps ==
  ASSUME StreamIInv, UNCHANGED vars
  PROVE  StreamIInv'
<1>1. UNCHANGED <<is_stopping, is_running, src, flt, snk, sig_accumulator_reset, reset_event,
                  queue, mapped, readers, skipped, phase, enable_filter, is_accepting_writes,
                  run, stored, mishaps>>
  BY DEF vars, flags, reset, queues, setup
<1>7. TypeOK'
  BY <1>1 DEF StreamIInv, TypeOK
<1>2. PhaseInv' /\ SliceInv' /\ FramesInv'
  BY <1>1 DEF StreamIInv, PhaseInv, SliceInv, FramesInv
<1>8. RegionInv'
  BY <1>1 DEF StreamIInv, RegionInv
<1>3. NumbersInv' /\ UnswitchedInv' /\ SignalsInv' /\ ResetInv'
  BY <1>1 DEF StreamIInv, NumbersInv, NextId, UnswitchedInv, SignalsInv, ResetInv
<1>4. WindowsInv'
  BY <1>1 DEF StreamIInv, WindowsInv, WholeOrLast
<1>5. OrderInv'
  BY <1>1 DEF StreamIInv, OrderInv, Unseen
<1>6. DeliveryInv'
  BY <1>1 DEF StreamIInv, DeliveryInv, Started, Sent
<1>. QED
  BY <1>2, <1>3, <1>4, <1>5, <1>6, <1>7, <1>8 DEF StreamIInv

\* Whatever the three threads and the client do, in any order and with any
\* mishap, StreamIInv holds.
THEOREM StreamInvariance == Spec => []StreamIInv
<1>1. Init => StreamIInv
  BY InitHolds
<1>2. StreamIInv /\ [Next]_vars => StreamIInv'
  BY NextKeeps, StutterKeeps
<1>. QED
  BY <1>1, <1>2, PTL DEF Spec

LEMMA StoredFollow ==
  ASSUME StreamIInv
  PROVE  StoredInOrder
  BY DEF StreamIInv, OrderInv, InOrder, StoredInOrder

LEMMA EveryFrameFollows ==
  ASSUME StreamIInv
  PROVE  EveryFrameIsStored
<1> SUFFICES ASSUME phase = "Armed", mishaps = {}, src.out = "sink", NEW i \in RunIds(run)
             PROVE  {i} \in Elements(stored) \cup skipped
  BY DEF EveryFrameIsStored
<1>1. src.pc = "Exited" /\ snk = "Exited"
  BY DEF StreamIInv, PhaseInv
<1>2. Unaveraged /\ SentArrive /\ AllSent /\ NoneLeft
  BY DeliveryIs DEF StreamIInv, Unaveraged
<1>3. src.iframe = MaxFrames /\ queue["sink"] = <<>>
  BY <1>1, <1>2 DEF AllSent, NoneLeft
<1>4. run \in Nat
  BY RecordsOf DEF StreamIInv
<1>5. (run - 1) * MaxFrames \in Int /\ run * MaxFrames = (run - 1) * MaxFrames + MaxFrames
  <2>1. run + 1 - 1 = run
    BY <1>4
  <2>. QED
    BY <1>4, <2>1, RunBase
<1>. DEFINE b == (run - 1) * MaxFrames
<1>6. i \in b .. b + MaxFrames - 1 /\ b \in Int
  BY <1>5, FramesAssumption DEF RunIds
<1>7. Sent(i - b) = {b + (i - b)}
  BY DEF Sent
<1>. HIDE DEF b
<1>8. i - b \in 0 .. MaxFrames - 1 /\ b + (i - b) = i
  BY <1>6, FramesAssumption
<1>9. Sent(i - b) \in Elements(stored) \cup Elements(queue["sink"]) \cup skipped
  BY <1>2, <1>3, <1>8 DEF SentArrive
<1>10. Sent(i - b) = {i}
  BY <1>7, <1>8
<1>. QED
  BY <1>3, <1>9, <1>10, EmptyElements

LEMMA AveragesFollow ==
  ASSUME StreamIInv
  PROVE  AveragesAreWhole
<1> SUFFICES ASSUME src.out = "filter", "switch" \notin mishaps, NEW i \in DOMAIN stored,
                    stored[i] \subseteq RunIds(run)
             PROVE  \/ Cardinality(stored[i]) = Window
                    \/ /\ i = Len(stored) /\ Cardinality(stored[i]) < Window
                       /\ flt.pc \in {"Publish", "Exited"}
  BY DEF AveragesAreWhole
<1>1. enable_filter
  BY DEF StreamIInv, UnswitchedInv
<1>. QED
  BY <1>1 DEF StreamIInv, WindowsInv, WholeOrLast

LEMMA SignalsFollow ==
  ASSUME StreamIInv
  PROVE  StopSignalsAreKept
  BY DEF StreamIInv, SignalsInv, StopSignalsAreKept

LEMMA OneWriterFollows ==
  ASSUME StreamIInv
  PROVE  OneWriterOfSink
  BY DEF StreamIInv, ResetInv, OneWriterOfSink

\* The state of the stream has its type: neither queue ever has more frames than
\* it holds, not even while source and filter both write to sink.in.
THEOREM StreamTypeCorrect == Spec => []TypeOK
<1>1. StreamIInv => TypeOK
  BY DEF StreamIInv
<1>. QED
  BY <1>1, StreamInvariance, PTL

\* What video_sink_thread appends is in the order of acquisition, and nothing
\* twice, for as long as averaging is not switched and the filter does not fail.
THEOREM StorageIsInOrder == Spec => []StoredInOrder
  BY StoredFollow, StreamInvariance, PTL

\* Without averaging, an acquisition in which nothing goes wrong has stored or
\* skipped all of its frames when acquire_stop returns.
THEOREM NoFrameIsLost == Spec => []EveryFrameIsStored
  BY EveryFrameFollows, StreamInvariance, PTL

\* With averaging, what video_filter_thread publishes adds up a whole window,
\* but for the last of a run.
THEOREM WindowsAreWhole == Spec => []AveragesAreWhole
  BY AveragesFollow, StreamInvariance, PTL

\* The filter and the sink do not miss the signals of a source that has ended.
THEOREM SignalsAreKept == Spec => []StopSignalsAreKept
  BY SignalsFollow, StreamInvariance, PTL

\* The reset that await_filter_reset waits for frees sink.in of the filter.
THEOREM ResetFreesSink == Spec => []OneWriterOfSink
  BY OneWriterFollows, StreamInvariance, PTL

===============================================================================
