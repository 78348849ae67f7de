----------------------- MODULE AmqpConnection_proofs -----------------------
(***************************************************************************)
(* The safety properties of an AMQP connection, proved for any number of   *)
(* calls of onData, any amount of data read in frames of any size, and any *)
(* of the faults: first of what it writes, then of what it reads.          *)
(*                                                                         *)
(* The predicates of the invariant take the values they speak of as        *)
(* parameters, so that there is one lemma for each thing that happens to   *)
(* the strand: a function is posted, or the one in front has run.          *)
(***************************************************************************)
EXTENDS AmqpConnection, Integers, TLAPS, SequenceTheorems

Posted == [op : Tasks, buf : Seq(Nat), n : Nat]

-----------------------------------------------------------------------------
(* Lemmas about sequences.                                                 *)

(* A function posted to a strand: what was there stays, and it is last.    *)
LEMMA Posting ==
  ASSUME NEW S, NEW s \in Seq(S), NEW t \in S
  PROVE  /\ Append(s, t) \in Seq(S)
         /\ Len(s) \in Nat
         /\ Len(Append(s, t)) = Len(s) + 1
         /\ \A i \in 1..Len(s) : Append(s, t)[i] = s[i]
         /\ Append(s, t)[Len(s) + 1] = t
  BY AppendProperties, LenProperties

(* The function in front has run: the others move up.                      *)
LEMMA FrontRuns ==
  ASSUME NEW S, NEW s \in Seq(S), s # <<>>
  PROVE  /\ Head(s) \in S
         /\ Head(s) = s[1]
         /\ Tail(s) \in Seq(S)
         /\ Len(s) \in Nat \ {0}
         /\ Len(Tail(s)) = Len(s) - 1
         /\ \A i \in 1..Len(Tail(s)) : Tail(s)[i] = s[i + 1]
  BY HeadTailProperties, LenProperties, EmptySeq

(* A function posted after those in front of it.                           *)
LEMMA PostedLast ==
  ASSUME NEW S, NEW s \in Seq(S), NEW t \in S
  PROVE  s \o <<t>> = Append(s, t)
  BY AppendIsConcat

-----------------------------------------------------------------------------
(* Types.                                                                  *)

(* A task is a function that can be posted.                                *)
LEMMA TaskType ==
  ASSUME NEW op \in Tasks, NEW buf \in Seq(Nat), NEW n \in Nat
  PROVE  /\ Task(op, buf, n) \in Posted
         /\ Task(op, buf, n).op = op
         /\ Task(op, buf, n).buf = buf
         /\ Task(op, buf, n).n = n
  BY DEF Task, Posted

(* One that holds no data.                                                 *)
LEMMA NoData ==
  ASSUME NEW op \in Tasks, NEW n \in Nat
  PROVE  Task(op, <<>>, n) \in Posted /\ Task(op, <<>>, n).op = op /\ Task(op, <<>>, n).n = n
<1>1. <<>> \in Seq(Nat)
  BY EmptySeq
<1> QED
  BY <1>1 DEF Task, Posted

(* What is posted, element by element.                                     *)
LEMMA PostedTypes ==
  ASSUME NEW st \in Seq(Posted)
  PROVE  \A i \in 1..Len(st) :
           st[i] \in Posted /\ st[i].op \in Tasks /\ st[i].buf \in Seq(Nat) /\ st[i].n \in Nat
<1>1. \A i \in 1..Len(st) : st[i] \in Posted
  BY ElementOfSeq
<1> QED
  BY <1>1 DEF Posted

-----------------------------------------------------------------------------
(* One write at a time: wi is outstanding, w is writing_, st the strand.   *)

Writes(t) == t.op \in {"start", "written", "failed"}

One(w, wi, st) ==
  /\ Len(wi) <= 1
  /\ wi # <<>> => w /\ \A i \in 1..Len(st) : ~Writes(st[i])
  /\ \A i, j \in 1..Len(st) : Writes(st[i]) /\ Writes(st[j]) => i = j
  /\ (\E i \in 1..Len(st) : Writes(st[i])) => w

(* A function that has nothing to do with writing is posted.               *)
LEMMA OnePosted ==
  ASSUME NEW w \in BOOLEAN, NEW wi \in Seq(Seq(Nat)), NEW st \in Seq(Posted), NEW t \in Posted,
         One(w, wi, st), ~Writes(t)
  PROVE  One(w, wi, Append(st, t))
  BY Posting DEF One

(* Any function has run.                                                   *)
LEMMA OneRun ==
  ASSUME NEW w \in BOOLEAN, NEW wi \in Seq(Seq(Nat)), NEW st \in Seq(Posted), st # <<>>,
         One(w, wi, st)
  PROVE  One(w, wi, Tail(st))
  BY FrontRuns DEF One

(* A function that belongs to a write has run: nobody writes now.          *)
LEMMA OneWriteRun ==
  ASSUME NEW w \in BOOLEAN, NEW wi \in Seq(Seq(Nat)), NEW st \in Seq(Posted), st # <<>>,
         One(w, wi, st), Writes(Head(st))
  PROVE  wi = <<>> /\ \A i \in 1..Len(Tail(st)) : ~Writes(Tail(st)[i])
  BY FrontRuns DEF One

(* When nobody writes, a function that belongs to a write is posted.       *)
LEMMA OneWritePosted ==
  ASSUME NEW st \in Seq(Posted), NEW t \in Posted,
         \A i \in 1..Len(st) : ~Writes(st[i])
  PROVE  One(TRUE, <<>>, Append(st, t))
  BY Posting, EmptySeq DEF One

-----------------------------------------------------------------------------
(* The order of what is sent, in flight, in outgoing_ and posted.          *)

Rising(s) == \A i, j \in 1..Len(s) : i < j => s[i] < s[j]
Within(s, g) == \A i \in 1..Len(s) : s[i] \in 1..g
Below(s, t) == \A i \in 1..Len(s), j \in 1..Len(t) : s[i] < t[j]

(* What the library handed over and has not been taken off outgoing_.      *)
Queued(se, out, st, g) ==
  /\ Rising(se) /\ Within(se, g)
  /\ Rising(out) /\ Within(out, g) /\ Below(se, out)
  /\ \A i \in 1..Len(st) : st[i].op = "data" =>
       /\ Rising(st[i].buf) /\ Within(st[i].buf, g)
       /\ Below(se, st[i].buf) /\ Below(out, st[i].buf)
  /\ \A i, j \in 1..Len(st) :
       i < j /\ st[i].op = "data" /\ st[j].op = "data" => Below(st[i].buf, st[j].buf)

(* What was taken off it, and is being written.                            *)
Flight(b, se, out, st, g) ==
  /\ Rising(b) /\ Within(b, g) /\ Below(se, b) /\ Below(b, out)
  /\ \A j \in 1..Len(st) : st[j].op = "data" => Below(b, st[j].buf)

Ordered(se, wi, out, st, g) ==
  /\ Queued(se, out, st, g)
  /\ \A i \in 1..Len(wi) : Flight(wi[i], se, out, st, g)
  /\ \A i \in 1..Len(st) : st[i].op = "start" => Flight(st[i].buf, se, out, st, g)

(* A function without data is posted.                                      *)
LEMMA OrderedPosted ==
  ASSUME NEW se \in Seq(Nat), NEW wi \in Seq(Seq(Nat)), NEW out \in Seq(Nat),
         NEW st \in Seq(Posted), NEW g \in Nat, NEW t \in Posted,
         Ordered(se, wi, out, st, g), t.op \notin {"data", "start"}
  PROVE  Ordered(se, wi, out, Append(st, t), g)
<1>1. Queued(se, out, Append(st, t), g)
  <2> DEFINE st1 == Append(st, t)
  <2>1. /\ Len(st) \in Nat /\ Len(st1) = Len(st) + 1 /\ st1[Len(st) + 1] = t
        /\ \A i \in 1..Len(st) : st1[i] = st[i]
    BY Posting
  <2>2. Queued(se, out, st, g)
    BY DEF Ordered
  <2> HIDE DEF st1
  <2>3. ASSUME NEW i \in 1..Len(st1), st1[i].op = "data"
        PROVE  i \in 1..Len(st) /\ st1[i] = st[i]
    <3>1. i # Len(st) + 1
      BY <2>1, <2>3
    <3> QED
      BY <2>1, <3>1
  <2>4. Queued(se, out, st1, g)
    BY <2>2, <2>3 DEF Queued
  <2> QED
    BY <2>4 DEF st1
<1>2. ASSUME NEW b, Flight(b, se, out, st, g) PROVE Flight(b, se, out, Append(st, t), g)
  BY <1>2, Posting DEF Flight
<1>3. \A i \in 1..Len(wi) : Flight(wi[i], se, out, Append(st, t), g)
  BY <1>2 DEF Ordered
<1>4. ASSUME NEW i \in 1..Len(Append(st, t)), Append(st, t)[i].op = "start"
      PROVE Flight(Append(st, t)[i].buf, se, out, Append(st, t), g)
  <2>1. i \in 1..Len(st) /\ Append(st, t)[i] = st[i]
    BY <1>4, Posting
  <2>2. Flight(st[i].buf, se, out, st, g)
    BY <1>4, <2>1 DEF Ordered
  <2> QED
    BY <1>2, <2>1, <2>2
<1> QED
  BY <1>1, <1>3, <1>4 DEF Ordered

(* Any function has run.                                                   *)
LEMMA OrderedRun ==
  ASSUME NEW se \in Seq(Nat), NEW wi \in Seq(Seq(Nat)), NEW out \in Seq(Nat),
         NEW st \in Seq(Posted), NEW g \in Nat, st # <<>>,
         Ordered(se, wi, out, st, g)
  PROVE  Ordered(se, wi, out, Tail(st), g)
<1>1. Queued(se, out, Tail(st), g)
  <2> DEFINE st1 == Tail(st)
  <2>1. /\ \A i \in 1..Len(st1) : i + 1 \in 1..Len(st) /\ st1[i] = st[i + 1]
        /\ \A i, j \in 1..Len(st1) : i < j => i + 1 < j + 1
    BY FrontRuns
  <2>2. Queued(se, out, st, g)
    BY DEF Ordered
  <2> HIDE DEF st1
  <2>3. \A i \in 1..Len(st1) : st1[i].op = "data" =>
          /\ Rising(st1[i].buf) /\ Within(st1[i].buf, g)
          /\ Below(se, st1[i].buf) /\ Below(out, st1[i].buf)
    BY <2>1, <2>2 DEF Queued
  <2>4. ASSUME NEW i \in 1..Len(st1), NEW j \in 1..Len(st1),
               i < j, st1[i].op = "data", st1[j].op = "data"
        PROVE  Below(st1[i].buf, st1[j].buf)
    <3>1. /\ i + 1 \in 1..Len(st) /\ j + 1 \in 1..Len(st) /\ i + 1 < j + 1
          /\ st[i + 1] = st1[i] /\ st[j + 1] = st1[j]
      BY <2>1, <2>4
    <3>2. Below(st[i + 1].buf, st[j + 1].buf)
      BY <2>2, <2>4, <3>1 DEF Queued
    <3> QED
      BY <3>1, <3>2
  <2>5. Queued(se, out, st1, g)
    BY <2>2, <2>3, <2>4 DEF Queued
  <2> QED
    BY <2>5 DEF st1
<1>2. ASSUME NEW b, Flight(b, se, out, st, g) PROVE Flight(b, se, out, Tail(st), g)
  <2>1. ASSUME NEW j \in 1..Len(Tail(st)), Tail(st)[j].op = "data"
        PROVE  Below(b, Tail(st)[j].buf)
    <3>1. j + 1 \in 1..Len(st) /\ Tail(st)[j] = st[j + 1]
      BY FrontRuns
    <3> QED
      BY <1>2, <2>1, <3>1 DEF Flight
  <2> QED
    BY <1>2, <2>1 DEF Flight
<1>3. \A i \in 1..Len(wi) : Flight(wi[i], se, out, Tail(st), g)
  BY <1>2 DEF Ordered
<1>4. ASSUME NEW i \in 1..Len(Tail(st)), Tail(st)[i].op = "start"
      PROVE Flight(Tail(st)[i].buf, se, out, Tail(st), g)
  <2>1. i + 1 \in 1..Len(st) /\ Tail(st)[i] = st[i + 1]
    BY FrontRuns
  <2>2. Flight(st[i + 1].buf, se, out, st, g)
    BY <1>4, <2>1 DEF Ordered
  <2> QED
    BY <1>2, <2>1, <2>2
<1> QED
  BY <1>1, <1>3, <1>4 DEF Ordered

(* onData() hands over what comes next.                                    *)
LEMMA OrderedGiven ==
  ASSUME NEW se \in Seq(Nat), NEW wi \in Seq(Seq(Nat)), NEW out \in Seq(Nat),
         NEW st \in Seq(Posted), NEW g \in Nat, NEW t \in Posted,
         Ordered(se, wi, out, st, g), t.op = "data", t.buf = <<g + 1>>
  PROVE  Ordered(se, wi, out, Append(st, t), g + 1)
<1> DEFINE one == <<g + 1>>
<1>9. /\ Len(st) \in Nat
      /\ Len(Append(st, t)) = Len(st) + 1
      /\ \A i \in 1..Len(st) : Append(st, t)[i] = st[i]
      /\ Append(st, t)[Len(st) + 1] = t
  BY Posting
<1>0. Len(one) = 1 /\ one[1] = g + 1
  OBVIOUS
<1>1. ASSUME NEW s \in Seq(Nat), Within(s, g) PROVE Within(s, g + 1) /\ Below(s, one)
  BY <1>0, <1>1, LenProperties, ElementOfSeq DEF Within, Below
<1>2. Rising(one) /\ Within(one, g + 1)
  BY <1>0 DEF Rising, Within
<1> HIDE DEF one
<1>3. \A i \in 1..Len(st) : st[i].buf \in Seq(Nat)
  BY PostedTypes
<1>4. t.buf = one
  BY DEF one
<1>5. Queued(se, out, Append(st, t), g + 1)
  <2> DEFINE new == Append(st, t)
  <2>1. /\ Rising(se) /\ Within(se, g + 1)
        /\ Rising(out) /\ Within(out, g + 1) /\ Below(se, out)
    BY <1>1 DEF Ordered, Queued
  <2>2. ASSUME NEW i \in 1..Len(new), new[i].op = "data"
        PROVE  /\ Rising(new[i].buf) /\ Within(new[i].buf, g + 1)
               /\ Below(se, new[i].buf) /\ Below(out, new[i].buf)
    <3>1. CASE i \in 1..Len(st)
      <4>1. new[i] = st[i]
        BY <1>9, <3>1
      <4> QED
        BY <1>1, <1>3, <2>2, <3>1, <4>1 DEF Ordered, Queued
    <3>2. CASE i = Len(st) + 1
      <4>1. new[i].buf = one
        BY <1>4, <1>9, <3>2
      <4> QED
        BY <1>1, <1>2, <4>1 DEF Ordered, Queued
    <3> QED
      BY <1>9, <3>1, <3>2
  <2>3. ASSUME NEW i \in 1..Len(new), NEW j \in 1..Len(new),
               i < j, new[i].op = "data", new[j].op = "data"
        PROVE  Below(new[i].buf, new[j].buf)
    <3>1. i \in 1..Len(st) /\ new[i] = st[i]
      BY <1>9, <2>3
    <3>2. CASE j \in 1..Len(st)
      <4>1. new[j] = st[j]
        BY <1>9, <3>2
      <4> QED
        BY <2>3, <3>1, <3>2, <4>1 DEF Ordered, Queued
    <3>3. CASE j = Len(st) + 1
      <4>1. new[j].buf = one
        BY <1>4, <1>9, <3>3
      <4>2. Within(st[i].buf, g)
        BY <2>3, <3>1 DEF Ordered, Queued
      <4> QED
        BY <1>1, <1>3, <3>1, <4>1, <4>2
    <3> QED
      BY <1>9, <3>2, <3>3
  <2> QED
    BY <2>1, <2>2, <2>3 DEF Queued
<1>6. ASSUME NEW b \in Seq(Nat), Flight(b, se, out, st, g)
      PROVE Flight(b, se, out, Append(st, t), g + 1)
  <2>1. ASSUME NEW j \in 1..Len(Append(st, t)), Append(st, t)[j].op = "data"
        PROVE  Below(b, Append(st, t)[j].buf)
    <3>1. CASE j \in 1..Len(st)
      BY <1>6, <1>9, <2>1, <3>1 DEF Flight
    <3>2. CASE j = Len(st) + 1
      <4>1. Append(st, t)[j].buf = one
        BY <1>4, <1>9, <3>2
      <4>2. Within(b, g)
        BY <1>6 DEF Flight
      <4> QED
        BY <1>1, <1>6, <4>1, <4>2
    <3> QED
      BY <1>9, <3>1, <3>2
  <2> QED
    BY <1>1, <1>6, <2>1 DEF Flight
<1>7. ASSUME NEW i \in 1..Len(wi) PROVE Flight(wi[i], se, out, Append(st, t), g + 1)
  <2>1. wi[i] \in Seq(Nat)
    BY ElementOfSeq, LenProperties
  <2> QED
    BY <1>6, <2>1 DEF Ordered
<1>8. ASSUME NEW i \in 1..Len(Append(st, t)), Append(st, t)[i].op = "start"
      PROVE Flight(Append(st, t)[i].buf, se, out, Append(st, t), g + 1)
  <2>1. i \in 1..Len(st) /\ Append(st, t)[i] = st[i]
    BY <1>8, <1>4, <1>9
  <2>2. Flight(st[i].buf, se, out, st, g)
    BY <1>8, <2>1 DEF Ordered
  <2> QED
    BY <1>3, <1>6, <2>1, <2>2
<1> QED
  BY <1>5, <1>7, <1>8 DEF Ordered

(* The elements of a sequence of numbers.                                  *)
LEMMA Elements ==
  ASSUME NEW s \in Seq(Nat)
  PROVE  Len(s) \in Nat /\ \A i \in 1..Len(s) : s[i] \in Nat
  BY LenProperties, ElementOfSeq

(* What one and then the other holds.                                      *)
LEMMA Joined ==
  ASSUME NEW s \in Seq(Nat), NEW t \in Seq(Nat)
  PROVE  /\ s \o t \in Seq(Nat)
         /\ \A i \in 1..Len(s \o t) :
              \/ i \in 1..Len(s) /\ (s \o t)[i] = s[i]
              \/ i - Len(s) \in 1..Len(t) /\ (s \o t)[i] = t[i - Len(s)]
<1>1. /\ s \o t \in Seq(Nat)
      /\ Len(s \o t) = Len(s) + Len(t)
      /\ \A i \in 1..Len(s) + Len(t) :
           (s \o t)[i] = IF i <= Len(s) THEN s[i] ELSE t[i - Len(s)]
  BY ConcatProperties
<1> QED
  BY <1>1, LenProperties

(* Two sequences in order, joined.                                         *)
LEMMA JoinedOrder ==
  ASSUME NEW s \in Seq(Nat), NEW t \in Seq(Nat)
  PROVE  /\ Rising(s) /\ Rising(t) /\ Below(s, t) => Rising(s \o t)
         /\ \A g \in Nat : Within(s, g) /\ Within(t, g) => Within(s \o t, g)
         /\ \A u \in Seq(Nat) : Below(s, u) /\ Below(t, u) => Below(s \o t, u)
         /\ \A u \in Seq(Nat) : Below(u, s) /\ Below(u, t) => Below(u, s \o t)
<1>1. Len(s) \in Nat /\ Len(t) \in Nat
  BY LenProperties
<1>2. ASSUME Rising(s), Rising(t), Below(s, t) PROVE Rising(s \o t)
  <2>1. SUFFICES ASSUME NEW i \in 1..Len(s \o t), NEW j \in 1..Len(s \o t), i < j
                 PROVE  (s \o t)[i] < (s \o t)[j]
    BY DEF Rising
  <2>2. CASE i \in 1..Len(s) /\ (s \o t)[i] = s[i]
    <3>1. CASE j \in 1..Len(s) /\ (s \o t)[j] = s[j]
      BY <1>2, <2>1, <2>2, <3>1 DEF Rising
    <3>2. CASE j - Len(s) \in 1..Len(t) /\ (s \o t)[j] = t[j - Len(s)]
      BY <1>2, <2>2, <3>2 DEF Below
    <3> QED
      BY <3>1, <3>2, Joined
  <2>3. CASE i - Len(s) \in 1..Len(t) /\ (s \o t)[i] = t[i - Len(s)]
    <3>1. j - Len(s) \in 1..Len(t) /\ (s \o t)[j] = t[j - Len(s)]
      BY <1>1, <2>1, <2>3, Joined
    <3>2. i - Len(s) < j - Len(s)
      BY <1>1, <2>1
    <3> QED
      BY <1>2, <2>3, <3>1, <3>2 DEF Rising
  <2> QED
    BY <2>2, <2>3, Joined
<1>3. \A g \in Nat : Within(s, g) /\ Within(t, g) => Within(s \o t, g)
  BY Joined DEF Within
<1>4. ASSUME NEW u \in Seq(Nat), Below(s, u), Below(t, u) PROVE Below(s \o t, u)
  <2>1. ASSUME NEW i \in 1..Len(s \o t), NEW j \in 1..Len(u) PROVE (s \o t)[i] < u[j]
    <3>1. CASE i \in 1..Len(s) /\ (s \o t)[i] = s[i]
      BY <1>4, <3>1 DEF Below
    <3>2. CASE i - Len(s) \in 1..Len(t) /\ (s \o t)[i] = t[i - Len(s)]
      BY <1>4, <3>2 DEF Below
    <3> QED
      BY <3>1, <3>2, Joined
  <2> QED
    BY <2>1 DEF Below
<1>5. ASSUME NEW u \in Seq(Nat), Below(u, s), Below(u, t) PROVE Below(u, s \o t)
  <2>1. ASSUME NEW i \in 1..Len(s \o t), NEW j \in 1..Len(u) PROVE u[j] < (s \o t)[i]
    <3>1. CASE i \in 1..Len(s) /\ (s \o t)[i] = s[i]
      BY <1>5, <3>1 DEF Below
    <3>2. CASE i - Len(s) \in 1..Len(t) /\ (s \o t)[i] = t[i - Len(s)]
      BY <1>5, <3>2 DEF Below
    <3> QED
      BY <3>1, <3>2, Joined
  <2> QED
    BY <2>1 DEF Below
<1> QED
  BY <1>2, <1>3, <1>4, <1>5

(* The first elements of a sequence.                                       *)
LEMMA PrefixOrder ==
  ASSUME NEW s \in Seq(Nat), NEW n \in 0..Len(s)
  PROVE  /\ SubSeq(s, 1, n) \in Seq(Nat)
         /\ Rising(s) => Rising(SubSeq(s, 1, n))
         /\ \A g \in Nat : Within(s, g) => Within(SubSeq(s, 1, n), g)
         /\ \A u \in Seq(Nat) : Below(s, u) => Below(SubSeq(s, 1, n), u)
         /\ \A u \in Seq(Nat) : Below(u, s) => Below(u, SubSeq(s, 1, n))
<1> DEFINE front == SubSeq(s, 1, n)
<1>1. Len(s) \in Nat /\ n \in Nat /\ \A i \in 1..n : s[i] \in Nat
  BY ElementOfSeq, LenProperties
<1>2. 1..n \subseteq 1..Len(s)
  BY <1>1
<1>3. front \in Seq(Nat) /\ Len(front) = n /\ \A i \in 1..n : front[i] = s[i]
  BY <1>1, SubSeqProperties
<1> HIDE DEF front
<1>4. Rising(s) => Rising(front)
  BY <1>2, <1>3 DEF Rising
<1>5. \A g \in Nat : Within(s, g) => Within(front, g)
  BY <1>2, <1>3 DEF Within
<1>6. \A u \in Seq(Nat) : Below(s, u) => Below(front, u)
  BY <1>2, <1>3 DEF Below
<1>7. \A u \in Seq(Nat) : Below(u, s) => Below(u, front)
  BY <1>2, <1>3 DEF Below
<1> QED
  BY <1>3, <1>4, <1>5, <1>6, <1>7 DEF front

(* The data in front goes to outgoing_.                                    *)
LEMMA OrderedCollected ==
  ASSUME NEW se \in Seq(Nat), NEW wi \in Seq(Seq(Nat)), NEW out \in Seq(Nat),
         NEW st \in Seq(Posted), NEW g \in Nat, st # <<>>,
         Ordered(se, wi, out, st, g), Head(st).op = "data"
  PROVE  Ordered(se, wi, out \o Head(st).buf, Tail(st), g)
<1> DEFINE data == st[1].buf
           more == out \o data
<1>0. 1 \in 1..Len(st) /\ Head(st) = st[1] /\ data \in Seq(Nat) /\ more \in Seq(Nat)
  <2>1. Len(st) \in Nat \ {0} /\ Head(st) = st[1]
    BY FrontRuns
  <2>2. data \in Seq(Nat)
    BY <2>1, PostedTypes
  <2> HIDE DEF data
  <2> QED
    BY <2>1, <2>2, Joined
<1>1. /\ Rising(data) /\ Within(data, g) /\ Below(se, data) /\ Below(out, data)
      /\ \A i \in 2..Len(st) : st[i].op = "data" => Below(data, st[i].buf)
  <2>1. st[1].op = "data" /\ Len(st) \in Nat
    BY <1>0, LenProperties
  <2> QED
    BY <1>0, <2>1 DEF Ordered, Queued
<1> HIDE DEF data
<1>2. Rising(more) /\ Within(more, g) /\ Below(se, more)
  BY <1>0, <1>1, JoinedOrder DEF Ordered, Queued
<1> HIDE DEF more
<1>3. ASSUME NEW i \in 1..Len(Tail(st))
      PROVE  i + 1 \in 2..Len(st) /\ Tail(st)[i] = st[i + 1] /\ st[i + 1].buf \in Seq(Nat)
  BY FrontRuns, PostedTypes
<1>4. ASSUME NEW i \in 1..Len(Tail(st)), Tail(st)[i].op = "data"
      PROVE  /\ Rising(Tail(st)[i].buf) /\ Within(Tail(st)[i].buf, g)
             /\ Below(se, Tail(st)[i].buf) /\ Below(more, Tail(st)[i].buf)
  <2>1. /\ Rising(st[i + 1].buf) /\ Within(st[i + 1].buf, g)
        /\ Below(se, st[i + 1].buf) /\ Below(out, st[i + 1].buf)
    BY <1>3, <1>4 DEF Ordered, Queued
  <2>2. Below(data, st[i + 1].buf)
    BY <1>1, <1>3, <1>4
  <2> QED
    BY <1>0, <1>3, <2>1, <2>2, JoinedOrder DEF more
<1>5. ASSUME NEW i \in 1..Len(Tail(st)), NEW j \in 1..Len(Tail(st)), i < j,
             Tail(st)[i].op = "data", Tail(st)[j].op = "data"
      PROVE  Below(Tail(st)[i].buf, Tail(st)[j].buf)
  <2>1. i + 1 \in 1..Len(st) /\ j + 1 \in 1..Len(st) /\ i + 1 < j + 1
    BY <1>3, <1>5
  <2>2. st[i + 1].op = "data" /\ st[j + 1].op = "data"
    BY <1>3, <1>5
  <2>3. Below(st[i + 1].buf, st[j + 1].buf)
    BY <2>1, <2>2 DEF Ordered, Queued
  <2> QED
    BY <1>3, <2>3
<1>6. Queued(se, more, Tail(st), g)
  BY <1>2, <1>4, <1>5 DEF Queued, Ordered
<1>7. ASSUME NEW b \in Seq(Nat), Flight(b, se, out, st, g)
      PROVE  Flight(b, se, more, Tail(st), g)
  <2>1. Below(b, more)
    BY <1>0, <1>7, JoinedOrder DEF Flight, more, data
  <2>2. ASSUME NEW j \in 1..Len(Tail(st)), Tail(st)[j].op = "data"
        PROVE  Below(b, Tail(st)[j].buf)
    <3>1. j + 1 \in 1..Len(st) /\ Tail(st)[j] = st[j + 1]
      BY <1>3
    <3> QED
      BY <1>7, <2>2, <3>1 DEF Flight
  <2> QED
    BY <1>7, <2>1, <2>2 DEF Flight
<1>8. ASSUME NEW i \in 1..Len(wi) PROVE Flight(wi[i], se, more, Tail(st), g)
  <2>1. wi[i] \in Seq(Nat)
    BY ElementOfSeq, LenProperties
  <2> QED
    BY <1>7, <2>1 DEF Ordered
<1>9. ASSUME NEW i \in 1..Len(Tail(st)), Tail(st)[i].op = "start"
      PROVE  Flight(Tail(st)[i].buf, se, more, Tail(st), g)
  <2>1. Flight(st[i + 1].buf, se, out, st, g)
    BY <1>3, <1>9 DEF Ordered
  <2> QED
    BY <1>3, <1>7, <2>1
<1> QED
  BY <1>0, <1>6, <1>8, <1>9 DEF Ordered, more, data

(* All of outgoing_ is taken off to be written.                            *)
LEMMA OrderedTaken ==
  ASSUME NEW se \in Seq(Nat), NEW wi \in Seq(Seq(Nat)), NEW out \in Seq(Nat),
         NEW st \in Seq(Posted), NEW g \in Nat, NEW t \in Posted,
         Ordered(se, wi, out, st, g), t.op = "start", t.buf = out
  PROVE  Ordered(se, wi, <<>>, Append(st, t), g)
<1> DEFINE new == Append(st, t)
<1>1. /\ Len(st) \in Nat
      /\ Len(new) = Len(st) + 1
      /\ \A i \in 1..Len(st) : new[i] = st[i]
      /\ new[Len(st) + 1] = t
  BY Posting
<1> HIDE DEF new
<1>2. /\ Rising(<<>>) /\ Within(<<>>, g)
      /\ \A b \in Seq(Nat) : Below(b, <<>>) /\ Below(<<>>, b)
  BY EmptySeq DEF Rising, Within, Below
<1>3. ASSUME NEW i \in 1..Len(new), new[i].op = "data"
      PROVE  i \in 1..Len(st) /\ new[i] = st[i] /\ st[i].buf \in Seq(Nat)
  <2>1. i # Len(st) + 1
    BY <1>1, <1>3
  <2>2. i \in 1..Len(st)
    BY <1>1, <2>1
  <2> QED
    BY <1>1, <2>2, PostedTypes
<1>4. Queued(se, <<>>, new, g)
  BY <1>2, <1>3 DEF Ordered, Queued
<1>5. ASSUME NEW b \in Seq(Nat), Flight(b, se, out, st, g)
      PROVE  Flight(b, se, <<>>, new, g)
  BY <1>2, <1>3, <1>5 DEF Flight
<1>6. Flight(out, se, <<>>, new, g)
  BY <1>2, <1>3 DEF Ordered, Queued, Flight
<1>7. ASSUME NEW i \in 1..Len(wi) PROVE Flight(wi[i], se, <<>>, new, g)
  <2>1. wi[i] \in Seq(Nat)
    BY ElementOfSeq, LenProperties
  <2> QED
    BY <1>5, <2>1 DEF Ordered
<1>8. ASSUME NEW i \in 1..Len(new), new[i].op = "start"
      PROVE  Flight(new[i].buf, se, <<>>, new, g)
  <2>1. CASE i \in 1..Len(st)
    <3>1. new[i] = st[i] /\ st[i].buf \in Seq(Nat)
      BY <1>1, <2>1, PostedTypes
    <3>2. Flight(st[i].buf, se, out, st, g)
      BY <1>8, <2>1, <3>1 DEF Ordered
    <3> QED
      BY <1>5, <3>1, <3>2
  <2>2. CASE i = Len(st) + 1
    BY <1>1, <1>6, <2>2
  <2> QED
    BY <1>1, <2>1, <2>2
<1> QED
  BY <1>4, <1>7, <1>8 DEF Ordered, new

(* async_write_some is called.                                             *)
LEMMA OrderedIssued ==
  ASSUME NEW se \in Seq(Nat), NEW wi \in Seq(Seq(Nat)), NEW out \in Seq(Nat),
         NEW st \in Seq(Posted), NEW g \in Nat, st # <<>>,
         Ordered(se, wi, out, st, g), Head(st).op = "start"
  PROVE  Ordered(se, Append(wi, Head(st).buf), out, Tail(st), g)
<1>1. Ordered(se, wi, out, Tail(st), g)
  BY OrderedRun
<1>2. Len(st) \in Nat \ {0} /\ Head(st) = st[1]
  BY FrontRuns
<1>3. Head(st).buf \in Seq(Nat) /\ Flight(Head(st).buf, se, out, st, g)
  <2>1. 1 \in 1..Len(st) /\ st[1].op = "start"
    BY <1>2
  <2>2. st[1].buf \in Seq(Nat)
    BY <2>1, PostedTypes
  <2>3. Flight(st[1].buf, se, out, st, g)
    BY <2>1 DEF Ordered
  <2> QED
    BY <1>2, <2>2, <2>3
<1>4. Flight(Head(st).buf, se, out, Tail(st), g)
  <2>1. ASSUME NEW j \in 1..Len(Tail(st)), Tail(st)[j].op = "data"
        PROVE  Below(Head(st).buf, Tail(st)[j].buf)
    <3>1. j + 1 \in 1..Len(st) /\ Tail(st)[j] = st[j + 1]
      BY FrontRuns
    <3> QED
      BY <1>3, <2>1, <3>1 DEF Flight
  <2> QED
    BY <1>3, <2>1 DEF Flight
<1>5. /\ Len(wi) \in Nat
      /\ Len(Append(wi, Head(st).buf)) = Len(wi) + 1
      /\ \A i \in 1..Len(wi) : Append(wi, Head(st).buf)[i] = wi[i]
      /\ Append(wi, Head(st).buf)[Len(wi) + 1] = Head(st).buf
  BY <1>3, Posting
<1>6. ASSUME NEW i \in 1..Len(Append(wi, Head(st).buf))
      PROVE  Flight(Append(wi, Head(st).buf)[i], se, out, Tail(st), g)
  <2>1. CASE i \in 1..Len(wi)
    BY <1>1, <1>5, <2>1 DEF Ordered
  <2>2. CASE i = Len(wi) + 1
    BY <1>4, <1>5, <2>2
  <2> QED
    BY <1>5, <2>1, <2>2
<1> QED
  BY <1>1, <1>6 DEF Ordered

(* It ends.                                                                *)
LEMMA OrderedEnded ==
  ASSUME NEW se \in Seq(Nat), NEW wi \in Seq(Seq(Nat)), NEW out \in Seq(Nat),
         NEW st \in Seq(Posted), NEW g \in Nat, wi # <<>>,
         Ordered(se, wi, out, st, g)
  PROVE  Ordered(se, Tail(wi), out, st, g)
<1>1. \A i \in 1..Len(Tail(wi)) : i + 1 \in 1..Len(wi) /\ Tail(wi)[i] = wi[i + 1]
  BY FrontRuns
<1> QED
  BY <1>1 DEF Ordered

(* The socket has taken the first n of what is written.                    *)
LEMMA OrderedSent ==
  ASSUME NEW se \in Seq(Nat), NEW wi \in Seq(Seq(Nat)), NEW out \in Seq(Nat),
         NEW st \in Seq(Posted), NEW g \in Nat, Len(wi) = 1, NEW n \in 0..Len(wi[1]),
         Ordered(se, wi, out, st, g), \A i \in 1..Len(st) : st[i].op # "start"
  PROVE  Ordered(se \o SubSeq(wi[1], 1, n), <<>>, out, st, g)
<1> DEFINE part == SubSeq(wi[1], 1, n)
<1>1. wi[1] \in Seq(Nat) /\ Flight(wi[1], se, out, st, g)
  <2>1. 1 \in 1..Len(wi)
    OBVIOUS
  <2>2. wi[1] \in Seq(Nat)
    BY <2>1, ElementOfSeq
  <2> QED
    BY <2>1, <2>2 DEF Ordered
<1>2. Rising(part) /\ Within(part, g) /\ Below(se, part) /\ Below(part, out) /\ part \in Seq(Nat)
  BY <1>1, PrefixOrder DEF Flight
<1>3. ASSUME NEW i \in 1..Len(st), st[i].op = "data"
      PROVE  st[i].buf \in Seq(Nat) /\ Below(part, st[i].buf)
  <2>1. st[i].buf \in Seq(Nat)
    BY PostedTypes
  <2>2. Below(wi[1], st[i].buf)
    BY <1>1, <1>3 DEF Flight
  <2> QED
    BY <1>1, <2>1, <2>2, PrefixOrder
<1> HIDE DEF part
<1>4. Rising(se \o part) /\ Within(se \o part, g) /\ Below(se \o part, out)
  BY <1>2, JoinedOrder DEF Ordered, Queued
<1>5. ASSUME NEW i \in 1..Len(st), st[i].op = "data"
      PROVE  Below(se \o part, st[i].buf)
  <2>1. Below(se, st[i].buf)
    BY <1>5 DEF Ordered, Queued
  <2> QED
    BY <1>2, <1>3, <1>5, <2>1, JoinedOrder
<1>6. Queued(se \o part, out, st, g)
  BY <1>4, <1>5 DEF Ordered, Queued
<1>7. Len(<<>>) = 0
  BY EmptySeq
<1> QED
  BY <1>6, <1>7 DEF Ordered, part

-----------------------------------------------------------------------------
(* The invariant of Spec: initially, and preserved by each action.         *)

WriteInv ==
  /\ TypeOK
  /\ stage \in {"resolve", "connect"} => given = 0
  /\ OneWriteAtATime
  /\ Ordered(sent, wire, outgoing, strand, given)

(* The parts of the invariant that speak of the strand, for a step.        *)
StrandInv(w, wi, out, st, se, g) ==
  /\ w \in BOOLEAN
  /\ wi \in Seq(Seq(Nat))
  /\ out \in Seq(Nat)
  /\ st \in Seq(Posted)
  /\ se \in Seq(Nat)
  /\ g \in Nat
  /\ One(w, wi, st)
  /\ Ordered(se, wi, out, st, g)

(* The invariant in these terms, before a step and after it.               *)
LEMMA WriteInvParts ==
  /\ WriteInv <=> /\ TypeOK
                  /\ stage \in {"resolve", "connect"} => given = 0
                  /\ StrandInv(writing, wire, outgoing, strand, sent, given)
  /\ WriteInv' <=> /\ TypeOK'
                   /\ stage' \in {"resolve", "connect"} => given' = 0
                   /\ StrandInv(writing', wire', outgoing', strand', sent', given')
<1>1. OneWriteAtATime <=> One(writing, wire, strand)
  BY DEF OneWriteAtATime, WriteTask, One, Writes
<1>2. OneWriteAtATime' <=> One(writing', wire', strand')
  BY DEF OneWriteAtATime, WriteTask, One, Writes
<1>3. (Ordered(sent, wire, outgoing, strand, given))'
        <=> Ordered(sent', wire', outgoing', strand', given')
  BY DEF Ordered, Queued, Flight, Rising, Within, Below
<1> QED
  BY <1>1, <1>2, <1>3 DEF WriteInv, StrandInv, TypeOK, Posted

(* A function that neither writes nor holds data is posted.                *)
LEMMA StrandPosted ==
  ASSUME NEW w, NEW wi, NEW out, NEW st, NEW se, NEW g, NEW t \in Posted,
         StrandInv(w, wi, out, st, se, g), t.op \in {"read", "read_some", "lost"}
  PROVE  StrandInv(w, wi, out, Append(st, t), se, g)
<1>1. ~Writes(t) /\ t.op \notin {"data", "start"}
  BY DEF Writes
<1> QED
  BY <1>1, OnePosted, OrderedPosted, Posting DEF StrandInv

(* Any function has run.                                                   *)
LEMMA StrandRun ==
  ASSUME NEW w, NEW wi, NEW out, NEW st, NEW se, NEW g,
         StrandInv(w, wi, out, st, se, g), st # <<>>
  PROVE  StrandInv(w, wi, out, Tail(st), se, g)
  BY OneRun, OrderedRun, FrontRuns DEF StrandInv

(* write_handler(), called in a state with the invariant.                  *)
LEMMA WriteHandlerInv ==
  ASSUME NEW w, NEW out, NEW before, NEW after,
         StrandInv(w, wire, out, before, sent, given),
         after = <<>> \/ after = <<Task("read", <<>>, 0)>>,
         WriteHandler(w, out, before, after)
  PROVE  StrandInv(writing', wire, outgoing', strand', sent, given)
<1>1. ASSUME NEW st, NEW v, NEW o, StrandInv(v, wire, o, st, sent, given)
      PROVE  StrandInv(v, wire, o, st \o after, sent, given)
  <2>1. CASE after = <<>>
    <3>1. st \o after = st
      <4>1. st \in Seq(Posted)
        BY <1>1 DEF StrandInv
      <4>2. st \o <<>> = st
        BY <4>1, ConcatEmptySeq
      <4> QED
        BY <2>1, <4>2
    <3> QED
      BY <1>1, <3>1
  <2>2. CASE after = <<Task("read", <<>>, 0)>>
    <3> DEFINE t == Task("read", <<>>, 0)
    <3>1. t \in Posted /\ t.op = "read"
      BY NoData DEF Tasks
    <3> HIDE DEF t
    <3>2. st \o after = Append(st, t)
      BY <1>1, <2>2, <3>1, PostedLast DEF StrandInv, t
    <3> QED
      BY <1>1, <3>1, <3>2, StrandPosted
  <2> QED
    BY <2>1, <2>2
<1>2. PICK ours \in Exchange(w) :
        \/ /\ ~ (ours /\ out # <<>>)
           /\ writing' = w
           /\ outgoing' = out
           /\ strand' = before \o after
        \/ /\ ours /\ out # <<>>
           /\ writing' = TRUE
           /\ outgoing' = <<>>
           /\ strand' = Append(before, Task("start", out, 0)) \o after
  BY DEF WriteHandler
<1>3. CASE ~ (ours /\ out # <<>>)
  BY <1>1, <1>2, <1>3
<1>4. CASE ours /\ out # <<>>
  <2> DEFINE t == Task("start", out, 0)
  <2>1. t \in Posted /\ t.op = "start" /\ t.buf = out
    BY TaskType DEF Tasks, StrandInv
  <2> HIDE DEF t
  <2>2. w = FALSE
    BY <1>4 DEF Exchange, StrandInv
  <2>3. wire = <<>> /\ \A i \in 1..Len(before) : ~Writes(before[i])
    BY <2>2 DEF StrandInv, One
  <2>4. One(TRUE, wire, Append(before, t))
    BY <2>1, <2>3, OneWritePosted DEF StrandInv
  <2>5. Ordered(sent, wire, <<>>, Append(before, t), given)
    BY <2>1, OrderedTaken DEF StrandInv
  <2>6. Append(before, t) \in Seq(Posted) /\ <<>> \in Seq(Nat)
    BY <2>1, Posting, EmptySeq DEF StrandInv
  <2>7. StrandInv(TRUE, wire, <<>>, Append(before, t), sent, given)
    BY <2>4, <2>5, <2>6 DEF StrandInv
  <2> QED
    BY <1>1, <1>2, <1>4, <2>7 DEF t
<1> QED
  BY <1>3, <1>4

(* The connection starts in the invariant.                                 *)
LEMMA InitInv == Init => WriteInv
<1> SUFFICES ASSUME Init PROVE WriteInv
  OBVIOUS
<1> USE DEF Init
<1>1. /\ <<>> \in Seq(Nat) /\ <<>> \in Seq(Seq(Nat)) /\ <<>> \in Seq(Posted)
      /\ Len(<<>>) = 0
  BY EmptySeq
<1>2. TypeOK
  BY <1>1 DEF TypeOK, Posted
<1>3. OneWriteAtATime
  BY <1>1 DEF OneWriteAtATime
<1>4. Ordered(sent, wire, outgoing, strand, given)
  BY <1>1 DEF Ordered, Queued, Rising, Within, Below
<1> QED
  BY <1>2, <1>3, <1>4 DEF WriteInv

(* What the library hands over next is posted.                             *)
LEMMA StrandGiven ==
  ASSUME NEW w, NEW wi, NEW out, NEW st, NEW se, NEW g,
         StrandInv(w, wi, out, st, se, g)
  PROVE  StrandInv(w, wi, out, Append(st, Task("data", <<g + 1>>, 0)), se, g + 1)
<1> DEFINE t == Task("data", <<g + 1>>, 0)
<1>1. g + 1 \in Nat /\ <<g + 1>> \in Seq(Nat)
  <2>1. g + 1 \in Nat
    BY DEF StrandInv
  <2> QED
    BY <2>1
<1>2. t \in Posted /\ t.op = "data" /\ t.buf = <<g + 1>>
  BY <1>1 DEF Tasks, Task, Posted
<1> HIDE DEF t
<1>3. ~Writes(t)
  BY <1>2 DEF Writes
<1>4. Append(st, t) \in Seq(Posted)
  BY <1>2, Posting DEF StrandInv
<1>5. One(w, wi, Append(st, t))
  BY <1>2, <1>3, OnePosted DEF StrandInv
<1>6. Ordered(se, wi, out, Append(st, t), g + 1)
  BY <1>2, OrderedGiven DEF StrandInv
<1> QED
  BY <1>1, <1>4, <1>5, <1>6 DEF StrandInv, t

(* client::connect() and setup() preserve the invariant.                   *)
LEMMA SetupInv ==
  ASSUME WriteInv, Resolved \/ ConnectFails \/ Construct \/ Begin
  PROVE  WriteInv'
<1>1. /\ TypeOK
      /\ stage \in {"resolve", "connect"} => given = 0
      /\ StrandInv(writing, wire, outgoing, strand, sent, given)
  BY WriteInvParts
<1>2. CASE Resolved \/ ConnectFails
  <2>1. UNCHANGED <<strand, writeVars, readVars, open, reported>>
    BY <1>2 DEF Resolved, ConnectFails
  <2>2. TypeOK' /\ (stage' \in {"resolve", "connect"} => given' = 0)
    BY <1>1, <1>2, <2>1 DEF TypeOK, Resolved, ConnectFails, writeVars, readVars
  <2>3. StrandInv(writing', wire', outgoing', strand', sent', given')
    BY <1>1, <2>1 DEF writeVars
  <2> QED
    BY <2>2, <2>3, WriteInvParts
<1>3. CASE Construct
  <2>1. given = 0 /\ given' = 1 /\ stage' = "constructed"
    BY <1>1, <1>3 DEF Construct
  <2>2. StrandInv(writing, wire, outgoing, Append(strand, Task("data", <<0 + 1>>, 0)), sent, 0 + 1)
    BY <1>1, <2>1, StrandGiven
  <2>3. StrandInv(writing', wire', outgoing', strand', sent', given')
    BY <1>3, <2>1, <2>2 DEF Construct
  <2>4. TypeOK'
    BY <1>1, <1>3, <2>3 DEF Construct, TypeOK, StrandInv, Posted, readVars
  <2> QED
    BY <2>1, <2>3, <2>4, WriteInvParts
<1>4. CASE Begin
  <2> DEFINE read == <<Task("read", <<>>, 0)>>
  <2>1. StrandInv(writing', wire, outgoing', strand', sent, given)
    <3>1. CASE outgoing = <<>>
      <4>1. Task("read", <<>>, 0) \in Posted /\ Task("read", <<>>, 0).op = "read"
        BY NoData DEF Tasks
      <4>2. strand' = Append(strand, Task("read", <<>>, 0))
        BY <1>1, <1>4, <3>1, <4>1, PostedLast DEF Begin, StrandInv
      <4>3. StrandInv(writing, wire, outgoing, Append(strand, Task("read", <<>>, 0)), sent, given)
        BY <1>1, <4>1, StrandPosted
      <4> QED
        BY <1>4, <3>1, <4>2, <4>3 DEF Begin
    <3>2. CASE outgoing # <<>>
      <4>1. WriteHandler(writing, outgoing, strand, read)
        BY <1>4, <3>2 DEF Begin
      <4> QED
        BY <1>1, <4>1, WriteHandlerInv
    <3> QED
      BY <3>1, <3>2
  <2>2. UNCHANGED <<given, wire, sent, readVars, open, reported>> /\ stage' = "ready"
    BY <1>4 DEF Begin
  <2>3. StrandInv(writing', wire', outgoing', strand', sent', given')
    BY <2>1, <2>2
  <2>4. TypeOK'
    BY <1>1, <2>2, <2>3 DEF TypeOK, StrandInv, Posted, readVars
  <2> QED
    BY <2>2, <2>3, <2>4, WriteInvParts
<1> QED
  BY <1>2, <1>3, <1>4

(* onData(), and the end of a read or the break of the connection.         *)
LEMMA OutsideInv ==
  ASSUME WriteInv,
         \/ OnData \/ ReadFails \/ Break
         \/ \E n \in 1..MaxArrived : ReadSome(n)
  PROVE  WriteInv'
<1>1. /\ TypeOK
      /\ StrandInv(writing, wire, outgoing, strand, sent, given)
  BY WriteInvParts
<1>2. CASE OnData
  <2>1. StrandInv(writing', wire', outgoing', strand', sent', given')
    BY <1>1, <1>2, StrandGiven DEF OnData
  <2>2. TypeOK' /\ stage' = "ready"
    BY <1>1, <1>2, <2>1 DEF OnData, TypeOK, StrandInv, Posted, readVars
  <2> QED
    BY <2>1, <2>2, WriteInvParts
<1>3. CASE ReadFails
  <2>1. Task("lost", <<>>, 0) \in Posted /\ Task("lost", <<>>, 0).op = "lost"
    BY NoData DEF Tasks
  <2>2. StrandInv(writing', wire', outgoing', strand', sent', given')
    BY <1>1, <1>3, <2>1, StrandPosted DEF ReadFails, writeVars
  <2>3. TypeOK' /\ UNCHANGED <<stage, given>>
    BY <1>1, <1>3, <2>2 DEF ReadFails, TypeOK, StrandInv, Posted, writeVars
  <2> QED
    BY <2>2, <2>3, WriteInvParts
<1>4. ASSUME NEW n \in 1..MaxArrived, ReadSome(n) PROVE WriteInv'
  <2>1. Task("read_some", <<>>, n) \in Posted /\ Task("read_some", <<>>, n).op = "read_some"
    BY NoData DEF Tasks
  <2>2. StrandInv(writing', wire', outgoing', strand', sent', given')
    BY <1>1, <1>4, <2>1, StrandPosted DEF ReadSome, writeVars
  <2>3. TypeOK' /\ UNCHANGED <<stage, given>>
    <3>1. arrived' \in Nat
      <4>1. n \in Nat /\ arrived \in Nat
        BY <1>1, AmqpConstants DEF TypeOK
      <4>2. arrived' = arrived + n
        BY <1>4 DEF ReadSome
      <4> QED
        BY <4>1, <4>2
    <3>3. reading' \in BOOLEAN
      BY <1>4 DEF ReadSome
    <3>2. UNCHANGED <<stage, given, incoming, parsed, open, reported>>
      BY <1>4 DEF ReadSome, writeVars
    <3> QED
      BY <1>1, <2>2, <3>1, <3>2, <3>3 DEF TypeOK, StrandInv, Posted
  <2> QED
    BY <2>2, <2>3, WriteInvParts
<1>5. CASE Break
  <2>1. StrandInv(writing', wire', outgoing', strand', sent', given')
    BY <1>1, <1>5 DEF Break, writeVars
  <2>2. TypeOK' /\ UNCHANGED <<stage, given>>
    BY <1>1, <1>5 DEF Break, TypeOK, writeVars, readVars
  <2> QED
    BY <2>1, <2>2, WriteInvParts
<1> QED
  BY <1>2, <1>3, <1>4, <1>5

(* The end of a write.                                                     *)
LEMMA WriteEndsInv ==
  ASSUME WriteInv, WriteEnds
  PROVE  WriteInv'
<1>1. /\ TypeOK
      /\ StrandInv(writing, wire, outgoing, strand, sent, given)
  BY WriteInvParts
<1>2. PICK t \in Posted, part \in Seq(Nat) :
        /\ t.op \in {"written", "failed"}
        /\ strand' = Append(strand, t)
        /\ wire # <<>> /\ wire' = Tail(wire)
        /\ sent' = sent \o part
        /\ \E n \in 0..Len(wire[1]) : part = SubSeq(wire[1], 1, n)
  <2>0. wire # <<>> /\ Head(wire) = wire[1] /\ wire[1] \in Seq(Nat)
    <3>1. wire # <<>>
      BY DEF WriteEnds, WriteSome, WriteFails
    <3> QED
      BY <1>1, <3>1, FrontRuns DEF StrandInv
  <2>1. ASSUME NEW n \in 0..MaxGiven, WriteSome(n)
        PROVE  /\ n \in 0..Len(wire[1])
               /\ sent' = sent \o SubSeq(wire[1], 1, n)
               /\ wire' = Tail(wire)
               /\ strand' = Append(strand, Task("written", <<>>, n))
    BY <2>0, <2>1 DEF WriteSome
  <2>2. ASSUME NEW n \in 0..MaxGiven
        PROVE  Task("written", <<>>, n) \in Posted /\ Task("written", <<>>, n).op = "written"
    BY NoData, AmqpConstants DEF Tasks
  <2>3. CASE \E n \in 0..MaxGiven : WriteSome(n)
    <3>1. PICK n \in 0..MaxGiven : WriteSome(n)
      BY <2>3
    <3>2. SubSeq(wire[1], 1, n) \in Seq(Nat)
      BY <2>0, <2>1, <3>1, PrefixOrder
    <3>3. Task("written", <<>>, n) \in Posted /\ Task("written", <<>>, n).op = "written"
      BY <2>2
    <3> USE <3>2, <3>3
    <3> WITNESS Task("written", <<>>, n) \in Posted, SubSeq(wire[1], 1, n) \in Seq(Nat)
    <3> QED
      BY <2>0, <2>1, <3>1
  <2>4. CASE WriteFails
    <3>1. Task("failed", <<>>, 0) \in Posted /\ Task("failed", <<>>, 0).op = "failed"
      BY NoData DEF Tasks
    <3>2. 0 \in 0..Len(wire[1]) /\ SubSeq(wire[1], 1, 0) = <<>> /\ <<>> \in Seq(Nat)
      BY <2>0, SubSeqEmpty, LenProperties, EmptySeq
    <3>3. sent' = sent \o <<>>
      <4>1. sent \in Seq(Nat) /\ sent' = sent
        BY <1>1, <2>4 DEF WriteFails, StrandInv
      <4> QED
        BY <4>1, ConcatEmptySeq
    <3> USE <3>1, <3>2
    <3> WITNESS Task("failed", <<>>, 0) \in Posted, <<>> \in Seq(Nat)
    <3> QED
      BY <2>0, <2>4, <3>3 DEF WriteFails
  <2> QED
    BY <2>3, <2>4 DEF WriteEnds
<1>3. UNCHANGED <<stage, given, outgoing, writing, readVars, open, reported>>
  BY DEF WriteEnds, WriteSome, WriteFails
<1>4. writing = TRUE /\ Len(wire) = 1 /\ Tail(wire) = <<>>
      /\ \A i \in 1..Len(strand) : ~Writes(strand[i])
  <2>1. Len(wire) = 1
    <3>1. wire \in Seq(Seq(Nat))
      BY <1>1 DEF StrandInv
    <3>2. Len(wire) <= 1
      BY <1>1 DEF StrandInv, One
    <3>3. Len(wire) \in Nat \ {0}
      <4>1. wire # <<>>
        BY <1>2
      <4> QED
        BY <3>1, <4>1, FrontRuns
    <3>4. \A k \in Nat \ {0} : k <= 1 => k = 1
      OBVIOUS
    <3> QED
      BY <3>2, <3>3, <3>4
  <2>2. Tail(wire) \in Seq(Seq(Nat)) /\ Len(Tail(wire)) = 0
    BY <1>1, <1>2, <2>1, FrontRuns DEF StrandInv
  <2>3. Tail(wire) = <<>>
    BY <2>2, EmptySeq
  <2> QED
    BY <1>1, <1>2, <2>1, <2>3 DEF StrandInv, One
<1>5. One(TRUE, <<>>, Append(strand, t))
  BY <1>1, <1>4, OneWritePosted DEF StrandInv
<1>6. Ordered(sent \o part, <<>>, outgoing, strand, given)
  <2>1. \A i \in 1..Len(strand) : strand[i].op # "start"
    BY <1>4 DEF Writes
  <2> QED
    BY <1>1, <1>2, <1>4, <2>1, OrderedSent DEF StrandInv
<1>7. sent \o part \in Seq(Nat) /\ <<>> \in Seq(Seq(Nat)) /\ Append(strand, t) \in Seq(Posted)
  BY <1>1, <1>2, Joined, EmptySeq, Posting DEF StrandInv
<1>8. Ordered(sent \o part, <<>>, outgoing, Append(strand, t), given)
  BY <1>1, <1>2, <1>6, <1>7, OrderedPosted DEF StrandInv
<1>9. StrandInv(writing', wire', outgoing', strand', sent', given')
  BY <1>1, <1>2, <1>3, <1>4, <1>5, <1>7, <1>8 DEF StrandInv
<1>10. TypeOK'
  BY <1>1, <1>3, <1>9 DEF TypeOK, StrandInv, Posted, readVars
<1> QED
  BY <1>3, <1>9, <1>10, WriteInvParts

(* The functions of the strand that collect, start and end writes.         *)
LEMMA RunWriteInv ==
  ASSUME WriteInv, RunData \/ RunStart \/ RunWritten \/ RunFailed
  PROVE  WriteInv'
<1>1. /\ TypeOK
      /\ StrandInv(writing, wire, outgoing, strand, sent, given)
  BY WriteInvParts
<1>2. /\ strand # <<>>
      /\ strand \in Seq(Posted)
      /\ StrandInv(writing, wire, outgoing, Tail(strand), sent, given)
  <2>1. strand # <<>>
    BY DEF RunData, RunStart, RunWritten, RunFailed, Running
  <2> QED
    BY <1>1, <2>1, StrandRun DEF StrandInv
<1>3. Head(strand) \in Posted /\ Head(strand).buf \in Seq(Nat)
  <2>1. Head(strand) \in Posted
    BY <1>2, FrontRuns
  <2> QED
    BY <2>1 DEF Posted
<1>4. CASE RunData
  <2>1. outgoing \o Head(strand).buf \in Seq(Nat)
    BY <1>1, <1>3, Joined DEF StrandInv
  <2>2. Ordered(sent, wire, outgoing \o Head(strand).buf, Tail(strand), given)
    BY <1>1, <1>2, <1>4, OrderedCollected DEF StrandInv, RunData, Running
  <2>3. StrandInv(writing, wire, outgoing \o Head(strand).buf, Tail(strand), sent, given)
    BY <1>2, <2>1, <2>2 DEF StrandInv
  <2>4. StrandInv(writing', wire, outgoing', strand', sent, given)
    BY <1>4, <2>3, WriteHandlerInv DEF RunData
  <2>5. UNCHANGED <<stage, given, wire, sent, readVars, open, reported>>
    BY <1>4 DEF RunData
  <2>6. TypeOK'
    BY <1>1, <2>4, <2>5 DEF TypeOK, StrandInv, Posted, readVars
  <2> QED
    BY <1>1, <2>4, <2>5, <2>6, WriteInvParts
<1>5. CASE RunStart
  <2>1. Writes(Head(strand)) /\ Head(strand).op = "start"
    BY <1>5 DEF RunStart, Running, Writes
  <2>2. wire = <<>> /\ \A i \in 1..Len(Tail(strand)) : ~Writes(Tail(strand)[i])
    BY <1>1, <1>2, <2>1, OneWriteRun DEF StrandInv
  <2>3. writing = TRUE
    <3>1. 1 \in 1..Len(strand) /\ Writes(strand[1])
      BY <1>2, <2>1, FrontRuns
    <3> QED
      BY <1>1, <3>1 DEF StrandInv, One
  <2>4. wire' \in Seq(Seq(Nat)) /\ Len(wire') = 1
    <3>1. Append(wire, Head(strand).buf) \in Seq(Seq(Nat))
          /\ Len(Append(wire, Head(strand).buf)) = Len(wire) + 1
      BY <1>1, <1>3, Posting DEF StrandInv
    <3>2. Len(wire) = 0
      BY <2>2, EmptySeq
    <3> QED
      BY <1>5, <3>1, <3>2 DEF RunStart
  <2>5. One(writing, wire', Tail(strand))
    BY <2>2, <2>3, <2>4 DEF One
  <2>6. Ordered(sent, wire', outgoing, Tail(strand), given)
    BY <1>1, <1>2, <1>5, <2>1, OrderedIssued DEF StrandInv, RunStart
  <2>7. UNCHANGED <<stage, given, outgoing, writing, sent, readVars, open, reported>>
        /\ strand' = Tail(strand)
    BY <1>5 DEF RunStart
  <2>8. StrandInv(writing', wire', outgoing', strand', sent', given')
    BY <1>2, <2>4, <2>5, <2>6, <2>7 DEF StrandInv
  <2>9. TypeOK'
    BY <1>1, <2>7, <2>8 DEF TypeOK, StrandInv, Posted, readVars
  <2> QED
    BY <2>7, <2>8, <2>9, WriteInvParts
<1>6. CASE RunWritten \/ RunFailed
  <2>1. Writes(Head(strand))
    BY <1>6 DEF RunWritten, RunFailed, Running, Writes
  <2>2. wire = <<>> /\ \A i \in 1..Len(Tail(strand)) : ~Writes(Tail(strand)[i])
    BY <1>1, <1>2, <2>1, OneWriteRun DEF StrandInv
  <2>3. Len(<<>>) = 0
    BY EmptySeq
  <2>4. StrandInv(FALSE, wire, outgoing, Tail(strand), sent, given)
    BY <1>2, <2>2, <2>3 DEF StrandInv, One
  <2>5. UNCHANGED <<stage, given, wire, sent, readVars, open>> /\ reported' \in BOOLEAN
    BY <1>1, <1>6 DEF RunWritten, RunFailed, TypeOK
  <2>6. StrandInv(writing', wire, outgoing', strand', sent, given)
    <3>1. CASE RunWritten
      BY <2>4, <3>1, WriteHandlerInv DEF RunWritten
    <3>2. CASE RunFailed
      BY <2>4, <3>2 DEF RunFailed
    <3> QED
      BY <1>6, <3>1, <3>2
  <2>7. TypeOK'
    BY <1>1, <2>5, <2>6 DEF TypeOK, StrandInv, Posted, readVars
  <2> QED
    BY <2>5, <2>6, <2>7, WriteInvParts
<1> QED
  BY <1>4, <1>5, <1>6

(* What the parser takes, and what it leaves.                              *)
LEMMA ParseTypes ==
  ASSUME NEW n \in Nat
  PROVE  Parse(n) \in Nat /\ n - Parse(n) \in Nat
<1>1. n % FrameSize \in 0..(FrameSize - 1) /\ n % FrameSize <= n
  BY AmqpConstants
<1> QED
  BY <1>1, AmqpConstants DEF Parse

(* The functions of the strand that read.                                  *)
LEMMA RunReadInv ==
  ASSUME WriteInv, RunRead \/ RunReadSome \/ RunLost
  PROVE  WriteInv'
<1>1. /\ TypeOK
      /\ StrandInv(writing, wire, outgoing, strand, sent, given)
  BY WriteInvParts
<1>2. /\ strand # <<>>
      /\ strand \in Seq(Posted)
      /\ StrandInv(writing, wire, outgoing, Tail(strand), sent, given)
  <2>1. strand # <<>>
    BY DEF RunRead, RunReadSome, RunLost, Running
  <2> QED
    BY <1>1, <2>1, StrandRun DEF StrandInv
<1>3. UNCHANGED <<stage, writeVars, open>>
  BY DEF RunRead, RunReadSome, RunLost, readVars
<1>4. StrandInv(writing', wire', outgoing', strand', sent', given')
  <2>1. CASE RunReadSome
    <3>1. Task("read", <<>>, 0) \in Posted /\ Task("read", <<>>, 0).op = "read"
      BY NoData DEF Tasks
    <3>2. strand' = Append(Tail(strand), Task("read", <<>>, 0))
      BY <2>1 DEF RunReadSome
    <3> QED
      BY <1>2, <1>3, <3>1, <3>2, StrandPosted DEF writeVars
  <2>2. CASE RunRead \/ RunLost
    <3>1. strand' = Tail(strand)
      BY <2>2 DEF RunRead, RunLost
    <3> QED
      BY <1>2, <1>3, <3>1 DEF writeVars
  <2> QED
    BY <2>1, <2>2
<1>5. /\ reading' \in BOOLEAN /\ reported' \in BOOLEAN
      /\ arrived' \in Nat /\ incoming' \in Nat /\ parsed' \in Nat
  <2>1. CASE RunReadSome
    <3> DEFINE available == incoming + Head(strand).n
    <3>1. Head(strand) \in Posted
      BY <1>2, FrontRuns
    <3>2. available \in Nat
      BY <1>1, <3>1 DEF TypeOK, Posted
    <3>3. parsed' = parsed + Parse(available) /\ incoming' = available - Parse(available)
      BY <2>1 DEF RunReadSome
    <3>4. UNCHANGED <<reading, arrived, reported>>
      BY <2>1 DEF RunReadSome
    <3> HIDE DEF available
    <3>5. Parse(available) \in Nat /\ available - Parse(available) \in Nat
      BY <3>2, ParseTypes
    <3> QED
      BY <1>1, <3>3, <3>4, <3>5 DEF TypeOK
  <2>2. CASE RunRead \/ RunLost
    BY <1>1, <2>2 DEF RunRead, RunLost, TypeOK, readVars
  <2> QED
    BY <2>1, <2>2
<1>6. TypeOK'
  BY <1>1, <1>3, <1>4, <1>5 DEF TypeOK, StrandInv, Posted, writeVars
<1> QED
  BY <1>3, <1>4, <1>6, WriteInvParts DEF writeVars

(* Every step preserves the invariant.                                     *)
LEMMA NextInv == WriteInv /\ [Next]_vars => WriteInv'
<1> SUFFICES ASSUME WriteInv, [Next]_vars PROVE WriteInv'
  OBVIOUS
<1>1. CASE Next
  BY <1>1, SetupInv, OutsideInv, WriteEndsInv, RunWriteInv, RunReadInv DEF Next, RunStrand
<1>2. CASE UNCHANGED vars
  <2>1. TypeOK' /\ UNCHANGED <<stage, given>>
    BY <1>2 DEF vars, writeVars, readVars, TypeOK, WriteInv
  <2>2. StrandInv(writing', wire', outgoing', strand', sent', given')
    BY <1>2, WriteInvParts DEF vars, writeVars
  <2> QED
    BY <2>1, <2>2, WriteInvParts
<1> QED
  BY <1>1, <1>2
-----------------------------------------------------------------------------
(* The theorems.                                                           *)

(* Each variable of the connection keeps its type.                         *)
THEOREM TypeCorrect == Spec => []TypeOK
<1>1. WriteInv => TypeOK
  BY DEF WriteInv
<1> QED
  BY <1>1, InitInv, NextInv, PTL DEF Spec

(* From write_handler() to the end of the completion handler nobody else   *)
(* writes, although setup() may call write_handler() outside the strand.   *)
THEOREM WritesDoNotOverlap == Spec => []OneWriteAtATime
<1>1. WriteInv => OneWriteAtATime
  BY DEF WriteInv
<1> QED
  BY <1>1, InitInv, NextInv, PTL DEF Spec

(* What the socket takes is in the order of the calls of onData, and there *)
(* once, whatever short writes, errors and failed exchanges do.            *)
THEOREM OrderKept == Spec => []SentInOrder
<1>1. WriteInv => SentInOrder
  BY DEF WriteInv, Ordered, Queued, Rising, Within, SentInOrder
<1> QED
  BY <1>1, InitInv, NextInv, PTL DEF Spec

(* Where compare_exchange_weak fails only with writing_ true, data waits   *)
(* in outgoing_ only next to a write that will look at it, or after an     *)
(* error. That a failed write leaves it there is in the statement.         *)
THEOREM NoneStranded ==
  ASSUME "spurious" \notin Faults
  PROVE  Spec => []NothingStranded
<1>1. Init => NothingStranded
  BY DEF Init, NothingStranded
<1>2. ASSUME NEW out, NEW before, NEW after, NEW w \in BOOLEAN,
             WriteHandler(w, out, before, after)
      PROVE  outgoing' # <<>> => writing'
  <2>1. PICK ours \in {~w} :
          \/ ~ (ours /\ out # <<>>) /\ writing' = w /\ outgoing' = out
          \/ writing' = TRUE /\ outgoing' = <<>>
    BY <1>2 DEF WriteHandler, Exchange
  <2>2. ours = ~w
    BY <2>1
  <2> QED
    BY <2>1, <2>2
<1>3. ASSUME TypeOK, NothingStranded, Next PROVE NothingStranded'
  <2>1. CASE RunData
    <3>1. WriteHandler(writing, outgoing \o Head(strand).buf, Tail(strand), <<>>)
      BY <2>1 DEF RunData
    <3>2. writing \in BOOLEAN
      BY <1>3 DEF TypeOK
    <3> QED
      BY <1>2, <3>1, <3>2 DEF NothingStranded
  <2>2. CASE RunWritten
    BY <1>2, <2>2 DEF RunWritten, NothingStranded
  <2>3. CASE RunFailed
    BY <2>3 DEF RunFailed, NothingStranded
  <2>4. CASE Begin
    <3>1. CASE outgoing = <<>>
      BY <1>3, <2>4, <3>1 DEF Begin, NothingStranded
    <3>2. CASE outgoing # <<>>
      <4>1. WriteHandler(writing, outgoing, strand, <<Task("read", <<>>, 0)>>)
        BY <2>4, <3>2 DEF Begin
      <4>2. writing \in BOOLEAN
        BY <1>3 DEF TypeOK
      <4> QED
        BY <1>2, <4>1, <4>2 DEF NothingStranded
    <3> QED
      BY <3>1, <3>2
  <2>5. CASE RunLost
    BY <1>3, <2>5 DEF RunLost, NothingStranded, writeVars
  <2>6. CASE \/ Resolved \/ ConnectFails \/ Construct \/ OnData
             \/ RunStart \/ RunRead \/ RunReadSome \/ WriteEnds
             \/ (\E n \in 1..MaxArrived : ReadSome(n)) \/ ReadFails \/ Break
    <3>1. UNCHANGED <<outgoing, writing, reported>>
      BY <2>6 DEF Resolved, ConnectFails, Construct, OnData, RunStart, RunRead,
           RunReadSome, WriteEnds, WriteSome, WriteFails, ReadSome, ReadFails,
           Break, writeVars
    <3> QED
      BY <1>3, <3>1 DEF NothingStranded
  <2> QED
    BY <1>3, <2>1, <2>2, <2>3, <2>4, <2>5, <2>6 DEF Next, RunStrand
<1>4. ASSUME TypeOK, NothingStranded, [Next]_vars PROVE NothingStranded'
  <2>1. CASE UNCHANGED vars
    BY <1>4, <2>1 DEF vars, writeVars, NothingStranded
  <2> QED
    BY <1>3, <1>4, <2>1
<1> QED
  BY TypeCorrect, <1>1, <1>4, PTL DEF Spec

-----------------------------------------------------------------------------
(* What the connection reads is parsed once.                               *)

(* The functions of the strand that belong to reading.                     *)
Reads(t) == t.op \in {"read", "read_some", "lost"}

NobodyReads(re, st) == ~re /\ \A i \in 1..Len(st) : ~Reads(st[i])

(* One of them at most is posted, or a read is outstanding (re); of the ar *)
(* bytes that arrived, n are in incoming_ or parsed, and the others with a *)
(* function that is still to run.                                          *)
Counted(re, st, n, ar) ==
  /\ \A i, j \in 1..Len(st) : Reads(st[i]) /\ Reads(st[j]) => i = j
  /\ re => \A i \in 1..Len(st) : ~Reads(st[i])
  /\ \A i \in 1..Len(st) : st[i].op = "read_some" => n + st[i].n = ar
  /\ (\A i \in 1..Len(st) : st[i].op # "read_some") => n = ar

ReadInv ==
  /\ Counted(reading, strand, parsed + incoming, arrived)
  /\ stage # "ready" => NobodyReads(reading, strand)
  /\ arrived <= MaxArrived
  /\ parsed % FrameSize = 0

-----------------------------------------------------------------------------
(* The strand.                                                             *)

(* A function that has nothing to do with reading is posted.               *)
LEMMA OtherPosted ==
  ASSUME NEW re, NEW st \in Seq(Posted), NEW n, NEW ar, NEW t \in Posted, ~Reads(t)
  PROVE  /\ Counted(re, st, n, ar) => Counted(re, Append(st, t), n, ar)
         /\ NobodyReads(re, st) => NobodyReads(re, Append(st, t))
<1>1. /\ Len(st) \in Nat /\ Len(Append(st, t)) = Len(st) + 1
      /\ \A i \in 1..Len(st) : Append(st, t)[i] = st[i]
      /\ Append(st, t)[Len(st) + 1] = t
  BY Posting
<1>2. \A i \in 1..Len(Append(st, t)) : i \in 1..Len(st) \/ i = Len(st) + 1
  BY <1>1
<1>3. t.op # "read_some"
  BY DEF Reads
<1>4. \A i \in 1..Len(st) : i \in 1..Len(Append(st, t))
  BY <1>1
<1> QED
  BY <1>1, <1>2, <1>3, <1>4 DEF Counted, NobodyReads

(* One such has run.                                                       *)
LEMMA OtherRun ==
  ASSUME NEW re, NEW st \in Seq(Posted), st # <<>>, NEW n, NEW ar, ~Reads(Head(st))
  PROVE  /\ Counted(re, st, n, ar) => Counted(re, Tail(st), n, ar)
         /\ NobodyReads(re, st) => NobodyReads(re, Tail(st))
<1>1. /\ Head(st) = st[1] /\ Len(st) \in Nat \ {0} /\ Len(Tail(st)) = Len(st) - 1
      /\ \A i \in 1..Len(Tail(st)) : Tail(st)[i] = st[i + 1]
  BY FrontRuns
<1>2. \A i \in 1..Len(Tail(st)) : i + 1 \in 1..Len(st)
  BY <1>1
<1>3. \A i \in 1..Len(st) : i = 1 \/ (i - 1 \in 1..Len(Tail(st)) /\ (i - 1) + 1 = i)
  BY <1>1
<1>4. st[1].op # "read_some"
  BY <1>1 DEF Reads
<1>5. ASSUME Counted(re, st, n, ar) PROVE Counted(re, Tail(st), n, ar)
  <2>1. \A i, j \in 1..Len(Tail(st)) : Reads(Tail(st)[i]) /\ Reads(Tail(st)[j]) => i = j
    BY <1>1, <1>2, <1>5 DEF Counted
  <2>2. (\A i \in 1..Len(Tail(st)) : Tail(st)[i].op # "read_some")
          => \A i \in 1..Len(st) : st[i].op # "read_some"
    <3> SUFFICES ASSUME \A i \in 1..Len(Tail(st)) : Tail(st)[i].op # "read_some",
                        NEW i \in 1..Len(st)
                 PROVE  st[i].op # "read_some"
      OBVIOUS
    <3>1. CASE i = 1
      BY <1>4, <3>1
    <3>2. CASE i # 1
      <4> DEFINE j == i - 1
      <4>1. j \in 1..Len(Tail(st)) /\ j + 1 = i
        BY <1>3, <3>2
      <4> HIDE DEF j
      <4> QED
        BY <1>1, <4>1
    <3> QED
      BY <3>1, <3>2
  <2> QED
    BY <1>1, <1>2, <1>5, <2>1, <2>2 DEF Counted
<1> QED
  BY <1>1, <1>2, <1>5 DEF NobodyReads

(* A function that belongs to reading has run: nobody reads now.           *)
LEMMA ReaderRun ==
  ASSUME NEW re \in BOOLEAN, NEW st \in Seq(Posted), st # <<>>, NEW n, NEW ar,
         Counted(re, st, n, ar), Reads(Head(st))
  PROVE  /\ NobodyReads(re, Tail(st))
         /\ Head(st).op = "read_some" => n + Head(st).n = ar
         /\ Head(st).op # "read_some" => n = ar
<1>1. /\ Head(st) = st[1] /\ Len(st) \in Nat \ {0} /\ Len(Tail(st)) = Len(st) - 1
      /\ \A i \in 1..Len(Tail(st)) : Tail(st)[i] = st[i + 1]
  BY FrontRuns
<1>2. 1 \in 1..Len(st) /\ Reads(st[1])
  BY <1>1
<1>3. \A i \in 1..Len(st) : Reads(st[i]) => i = 1
  BY <1>2 DEF Counted
<1>4. \A i \in 1..Len(Tail(st)) : i + 1 \in 1..Len(st) /\ i + 1 # 1
  BY <1>1
<1>5. NobodyReads(re, Tail(st))
  BY <1>1, <1>2, <1>3, <1>4 DEF NobodyReads, Counted
<1>6. st[1].op # "read_some" => \A i \in 1..Len(st) : st[i].op # "read_some"
  BY <1>3 DEF Reads
<1> QED
  BY <1>1, <1>2, <1>5, <1>6 DEF Counted

(* When nobody reads, such a function is posted.                           *)
LEMMA ReaderPosted ==
  ASSUME NEW st \in Seq(Posted), NEW n, NEW ar, NEW t \in Posted, Reads(t),
         \A i \in 1..Len(st) : ~Reads(st[i]),
         t.op = "read_some" => n + t.n = ar,
         t.op # "read_some" => n = ar
  PROVE  Counted(FALSE, Append(st, t), n, ar)
<1>1. /\ Len(st) \in Nat /\ Len(Append(st, t)) = Len(st) + 1
      /\ \A i \in 1..Len(st) : Append(st, t)[i] = st[i]
      /\ Append(st, t)[Len(st) + 1] = t
  BY Posting
<1>2. \A i \in 1..Len(Append(st, t)) : i \in 1..Len(st) \/ i = Len(st) + 1
  BY <1>1
<1>3. \A i \in 1..Len(st) : st[i].op # "read_some"
  BY DEF Reads
<1>4. Len(st) + 1 \in 1..Len(Append(st, t))
  BY <1>1
<1> QED
  BY <1>1, <1>2, <1>3, <1>4 DEF Counted

(* write_handler() posts at most the start of a write, before after.       *)
LEMMA HandlerPosts ==
  ASSUME NEW w, NEW out \in Seq(Nat), NEW before \in Seq(Posted), NEW after,
         WriteHandler(w, out, before, after)
  PROVE  \E st \in Seq(Posted) :
           /\ strand' = st \o after
           /\ \A re, n, ar : /\ Counted(re, before, n, ar) => Counted(re, st, n, ar)
                             /\ NobodyReads(re, before) => NobodyReads(re, st)
<1> DEFINE t == Task("start", out, 0)
<1>1. t \in Posted /\ ~Reads(t)
  BY TaskType DEF Tasks, Reads
<1> HIDE DEF t
<1>2. Append(before, t) \in Seq(Posted)
  BY <1>1, Posting
<1>3. strand' = before \o after \/ strand' = Append(before, t) \o after
  BY DEF WriteHandler, t
<1> QED
  BY <1>1, <1>2, <1>3, OtherPosted

-----------------------------------------------------------------------------
(* Frames.                                                                 *)

LEMMA Scaled ==
  ASSUME NEW f \in Nat \ {0}, NEW x \in Int, x >= 1
  PROVE  f * x >= f
  OBVIOUS

(* A number of whole frames has no remainder.                              *)
LEMMA WholeFrames ==
  ASSUME NEW f \in Nat \ {0}, NEW k \in Nat
  PROVE  (f * k) % f = 0
<1> DEFINE n == f * k
<1>1. n \in Nat
  OBVIOUS
<1> HIDE DEF n
<1> DEFINE q == n \div f
<1>2. q \in Nat /\ n = f * q + (n % f) /\ n % f \in 0..f-1
  BY <1>1
<1> HIDE DEF q
<1>3. n % f = f * (k - q)
  BY <1>2 DEF n
<1>4. CASE k - q >= 1
  <2>1. f * (k - q) >= f
    BY <1>2, <1>4, Scaled
  <2> QED
    BY <1>2, <1>3, <2>1
<1>5. CASE q - k >= 1
  <2>1. f * (q - k) >= f
    BY <1>2, <1>5, Scaled
  <2>2. f * (k - q) = -(f * (q - k))
    BY <1>2
  <2> QED
    BY <1>2, <1>3, <2>1, <2>2
<1>6. CASE k = q
  <2>1. f * (k - q) = 0
    BY <1>2, <1>6
  <2> QED
    BY <1>3, <2>1 DEF n
<1> QED
  BY <1>2, <1>4, <1>5, <1>6

(* The parser takes whole frames, so whole frames are what it has taken.   *)
LEMMA FramesParsed ==
  ASSUME NEW p \in Nat, NEW a \in Nat, p % FrameSize = 0
  PROVE  (p + Parse(a)) % FrameSize = 0
<1>1. FrameSize \in Nat \ {0}
  BY AmqpConstants
<1>2. p \div FrameSize \in Nat /\ p = FrameSize * (p \div FrameSize)
  <2>1. p = FrameSize * (p \div FrameSize) + (p % FrameSize)
    BY <1>1
  <2>2. p \div FrameSize \in Nat
    BY <1>1
  <2> QED
    BY <1>1, <2>1, <2>2
<1>3. a \div FrameSize \in Nat /\ Parse(a) = FrameSize * (a \div FrameSize)
  <2>1. a = FrameSize * (a \div FrameSize) + (a % FrameSize) /\ a % FrameSize \in Nat
    BY <1>1
  <2>2. a \div FrameSize \in Nat
    BY <1>1
  <2> QED
    BY <1>1, <2>1, <2>2 DEF Parse
<1> DEFINE k == p \div FrameSize
           l == a \div FrameSize
<1>4. k \in Nat /\ l \in Nat /\ p = FrameSize * k /\ Parse(a) = FrameSize * l
  BY <1>2, <1>3
<1> HIDE DEF k, l
<1>5. p + Parse(a) = FrameSize * (k + l)
  BY <1>1, <1>4
<1> QED
  BY <1>1, <1>4, <1>5, WholeFrames

-----------------------------------------------------------------------------
(* The invariant: initially, and preserved by each action.                 *)

LEMMA ReadInvInit == Init => ReadInv
<1>1. 0 % FrameSize = 0 /\ 0 <= MaxArrived
  <2>1. FrameSize \in Nat \ {0} /\ MaxArrived \in Nat /\ 0 = FrameSize * 0
    BY AmqpConstants
  <2> QED
    BY <2>1, WholeFrames
<1> QED
  BY <1>1 DEF Init, ReadInv, Counted, NobodyReads

(* What leaves the reading side alone but for the strand, on which nothing *)
(* of it is posted or run.                                                 *)
LEMMA Undisturbed ==
  ASSUME ReadInv, UNCHANGED readVars,
         stage' # "ready" => stage # "ready",
         \A re, n, ar : /\ Counted(re, strand, n, ar) => Counted(re, strand', n, ar)
                        /\ NobodyReads(re, strand) => NobodyReads(re, strand')
  PROVE  ReadInv'
<1>1. Counted(reading', strand', parsed' + incoming', arrived')
  BY DEF ReadInv, readVars
<1>2. stage' # "ready" => NobodyReads(reading', strand')
  BY DEF ReadInv, readVars
<1>3. arrived' <= MaxArrived /\ parsed' % FrameSize = 0
  BY DEF ReadInv, readVars
<1> QED
  BY <1>1, <1>2, <1>3 DEF ReadInv, Counted, NobodyReads

(* A strand of functions, and its front.                                   *)
LEMMA StrandTypes ==
  ASSUME TypeOK
  PROVE  /\ strand \in Seq(Posted)
         /\ strand # <<>> =>
              /\ Head(strand) \in Posted /\ Head(strand).buf \in Seq(Nat) /\ Head(strand).n \in Nat
              /\ Tail(strand) \in Seq(Posted)
<1>1. strand \in Seq(Posted)
  BY DEF TypeOK, Posted
<1>2. strand # <<>> => Head(strand) \in Posted /\ Tail(strand) \in Seq(Posted)
  BY <1>1, FrontRuns
<1> QED
  BY <1>1, <1>2 DEF Posted

(* Another function has run and called write_handler().                    *)
LEMMA HandlerRun ==
  ASSUME TypeOK, strand # <<>>, ~Reads(Head(strand)), NEW w, NEW out \in Seq(Nat),
         WriteHandler(w, out, Tail(strand), <<>>)
  PROVE  \A re, n, ar : /\ Counted(re, strand, n, ar) => Counted(re, strand', n, ar)
                        /\ NobodyReads(re, strand) => NobodyReads(re, strand')
<1>1. strand \in Seq(Posted) /\ Tail(strand) \in Seq(Posted)
  BY StrandTypes
<1>2. PICK st \in Seq(Posted) :
        /\ strand' = st \o <<>>
        /\ \A re, n, ar : /\ Counted(re, Tail(strand), n, ar) => Counted(re, st, n, ar)
                          /\ NobodyReads(re, Tail(strand)) => NobodyReads(re, st)
  BY <1>1, HandlerPosts
<1>3. strand' = st
  BY <1>2, ConcatEmptySeq
<1> QED
  BY <1>1, <1>2, <1>3, OtherRun

(* The writing side.                                                       *)
LEMMA WritersKeep ==
  ASSUME TypeOK, ReadInv,
         \/ Resolved \/ ConnectFails \/ Construct \/ OnData \/ Break
         \/ RunData \/ RunStart \/ RunWritten \/ RunFailed \/ WriteEnds
  PROVE  ReadInv'
<1>1. strand \in Seq(Posted)
  BY StrandTypes
<1>2. given + 1 \in Nat /\ 0 \in Nat /\ 1 \in Nat
  BY DEF TypeOK
<1>3. UNCHANGED readVars /\ (stage' # "ready" => stage # "ready")
  BY DEF Resolved, ConnectFails, Construct, OnData, Break, RunData, RunStart, RunWritten,
         RunFailed, WriteEnds, WriteSome, WriteFails, readVars
<1>4. CASE UNCHANGED strand
  BY <1>3, <1>4, Undisturbed
<1>5. ASSUME NEW t \in Posted, ~Reads(t), strand' = Append(strand, t) PROVE ReadInv'
  BY <1>1, <1>3, <1>5, OtherPosted, Undisturbed
<1>6. ASSUME strand # <<>>, ~Reads(Head(strand)), strand' = Tail(strand) PROVE ReadInv'
  BY <1>1, <1>3, <1>6, OtherRun, Undisturbed
<1>7. CASE Resolved \/ ConnectFails \/ Break
  BY <1>4, <1>7 DEF Resolved, ConnectFails, Break
<1>8. CASE Construct \/ OnData
  <2>1. PICK g \in Nat : strand' = Append(strand, Task("data", <<g>>, 0))
    BY <1>2, <1>8 DEF Construct, OnData
  <2>2. <<g>> \in Seq(Nat)
    OBVIOUS
  <2>3. Task("data", <<g>>, 0) \in Posted /\ ~Reads(Task("data", <<g>>, 0))
    BY <1>2, <2>2, TaskType DEF Tasks, Reads
  <2> QED
    BY <1>5, <2>1, <2>3
<1>9. CASE WriteEnds
  <2>1. PICK op \in {"written", "failed"}, n \in Nat : strand' = Append(strand, Task(op, <<>>, n))
    BY <1>2, <1>9, AmqpConstants DEF WriteEnds, WriteSome, WriteFails
  <2>2. op \in Tasks
    BY DEF Tasks
  <2>3. Task(op, <<>>, n) \in Posted /\ Task(op, <<>>, n).op = op
    BY <2>2, NoData
  <2> QED
    BY <1>5, <2>1, <2>3 DEF Reads
<1>10. CASE RunStart \/ RunFailed
  BY <1>6, <1>10 DEF RunStart, RunFailed, Running, Reads
<1>11. CASE RunData
  <2>1. strand # <<>> /\ ~Reads(Head(strand))
    BY <1>11 DEF RunData, Running, Reads
  <2>2. outgoing \o Head(strand).buf \in Seq(Nat)
    BY <2>1, StrandTypes, Joined DEF TypeOK
  <2> QED
    BY <1>3, <1>11, <2>1, <2>2, HandlerRun, Undisturbed DEF RunData
<1>12. CASE RunWritten
  <2>1. strand # <<>> /\ ~Reads(Head(strand))
    BY <1>12 DEF RunWritten, Running, Reads
  <2>2. outgoing \in Seq(Nat)
    BY DEF TypeOK
  <2> QED
    BY <1>3, <1>12, <2>1, <2>2, HandlerRun, Undisturbed DEF RunWritten
<1> QED
  BY <1>7, <1>8, <1>9, <1>10, <1>11, <1>12

(* setup() starts the first read.                                          *)
LEMMA BeginReads ==
  ASSUME TypeOK, ReadInv, Begin
  PROVE  ReadInv'
<1> DEFINE read == Task("read", <<>>, 0)
<1>1. read \in Posted /\ read.op = "read"
  BY NoData DEF Tasks
<1> HIDE DEF read
<1>2. strand \in Seq(Posted) /\ outgoing \in Seq(Nat)
  BY StrandTypes DEF TypeOK
<1>3. NobodyReads(reading, strand) /\ Counted(reading, strand, parsed + incoming, arrived)
  BY DEF ReadInv, Begin
<1>4. PICK st \in Seq(Posted) : /\ strand' = st \o <<read>>
                               /\ NobodyReads(reading, st)
                               /\ Counted(reading, st, parsed + incoming, arrived)
  <2>1. CASE outgoing = <<>>
    BY <1>2, <1>3, <2>1 DEF Begin, read
  <2>2. CASE outgoing # <<>>
    <3>1. WriteHandler(writing, outgoing, strand, <<read>>)
      BY <2>2 DEF Begin, read
    <3>2. PICK st \in Seq(Posted) :
            /\ strand' = st \o <<read>>
            /\ \A re, n, ar : /\ Counted(re, strand, n, ar) => Counted(re, st, n, ar)
                              /\ NobodyReads(re, strand) => NobodyReads(re, st)
      BY ONLY <1>2, <3>1, HandlerPosts
    <3> QED
      BY ONLY <1>3, <3>2
  <2> QED
    BY <2>1, <2>2
<1>5. strand' = Append(st, read)
  BY <1>1, <1>4, PostedLast
<1>6. parsed + incoming = arrived
  <2>1. \A i \in 1..Len(st) : st[i].op # "read_some"
    BY <1>4 DEF NobodyReads, Reads
  <2> QED
    BY <1>4, <2>1 DEF Counted
<1>7. Counted(FALSE, strand', parsed + incoming, arrived)
  BY <1>1, <1>4, <1>5, <1>6, ReaderPosted DEF Reads, NobodyReads
<1>8. UNCHANGED readVars /\ stage' = "ready" /\ reading = FALSE
  BY <1>3 DEF Begin, TypeOK, NobodyReads
<1> QED
  BY <1>7, <1>8 DEF ReadInv, Counted, readVars

(* A read ends: its bytes, or its error, are with the function posted.     *)
LEMMA ReadEnds ==
  ASSUME TypeOK, ReadInv, ReadFails \/ \E n \in 1..MaxArrived : ReadSome(n)
  PROVE  ReadInv'
<1>1. strand \in Seq(Posted) /\ arrived \in Nat
  BY StrandTypes DEF TypeOK
<1>2. /\ stage = "ready" /\ \A i \in 1..Len(strand) : ~Reads(strand[i])
      /\ parsed + incoming = arrived
  <2>1. reading
    BY DEF ReadFails, ReadSome
  <2>2. stage = "ready" /\ \A i \in 1..Len(strand) : ~Reads(strand[i])
    BY <2>1 DEF ReadInv, NobodyReads, Counted
  <2>3. \A i \in 1..Len(strand) : strand[i].op # "read_some"
    BY <2>2 DEF Reads
  <2> QED
    BY <2>2, <2>3 DEF ReadInv, Counted
<1>3. CASE ReadFails
  <2> DEFINE t == Task("lost", <<>>, 0)
  <2>1. t \in Posted /\ t.op = "lost"
    BY NoData DEF Tasks
  <2>2. strand' = Append(strand, t) /\ reading' = FALSE
        /\ UNCHANGED <<stage, arrived, incoming, parsed>>
    BY <1>3 DEF ReadFails
  <2> HIDE DEF t
  <2>3. Counted(FALSE, strand', parsed + incoming, arrived)
    BY <1>1, <1>2, <2>1, <2>2, ReaderPosted DEF Reads
  <2> QED
    BY <1>2, <2>2, <2>3 DEF ReadInv, Counted
<1>4. ASSUME NEW n \in 1..MaxArrived, ReadSome(n) PROVE ReadInv'
  <2> DEFINE t == Task("read_some", <<>>, n)
  <2>1. n \in Nat
    BY AmqpConstants
  <2>2. t \in Posted /\ t.op = "read_some" /\ t.n = n
    BY <2>1, NoData DEF Tasks
  <2>3. strand' = Append(strand, t) /\ reading' = FALSE /\ arrived' = arrived + n
        /\ arrived' <= MaxArrived /\ UNCHANGED <<stage, incoming, parsed>>
    BY <1>4 DEF ReadSome
  <2> HIDE DEF t
  <2>4. parsed + incoming + t.n = arrived'
    BY <1>2, <2>2, <2>3
  <2>5. Counted(FALSE, strand', parsed + incoming, arrived')
    BY <1>1, <1>2, <2>2, <2>3, <2>4, ReaderPosted DEF Reads
  <2> QED
    BY <1>2, <2>3, <2>5 DEF ReadInv, Counted
<1> QED
  BY <1>3, <1>4

(* The functions of the strand that read.                                  *)
LEMMA ReadersRun ==
  ASSUME TypeOK, ReadInv, RunRead \/ RunReadSome \/ RunLost
  PROVE  ReadInv'
<1>1. strand # <<>> /\ Reads(Head(strand))
  BY DEF RunRead, RunReadSome, RunLost, Running, Reads
<1>2. /\ strand \in Seq(Posted) /\ Tail(strand) \in Seq(Posted)
      /\ Head(strand).n \in Nat /\ parsed \in Nat /\ incoming \in Nat /\ reading \in BOOLEAN
  BY <1>1, StrandTypes DEF TypeOK
<1>3. /\ NobodyReads(reading, Tail(strand))
      /\ Head(strand).op = "read_some" => parsed + incoming + Head(strand).n = arrived
      /\ Head(strand).op # "read_some" => parsed + incoming = arrived
  BY <1>1, <1>2, ReaderRun DEF ReadInv
<1>4. stage = "ready"
  <2>1. 1 \in 1..Len(strand) /\ Head(strand) = strand[1]
    BY <1>1, <1>2, FrontRuns
  <2> QED
    BY <1>1, <2>1 DEF ReadInv, NobodyReads
<1>5. CASE RunRead \/ RunLost
  <2>1. /\ strand' = Tail(strand) /\ reading' \in BOOLEAN
        /\ UNCHANGED <<stage, arrived, incoming, parsed>>
    BY <1>2, <1>5 DEF RunRead, RunLost, readVars
  <2>2. parsed + incoming = arrived
    BY <1>3, <1>5 DEF RunRead, RunLost, Running
  <2>3. \A i \in 1..Len(strand') : ~Reads(strand'[i])
    BY <1>3, <2>1 DEF NobodyReads
  <2>4. \A i \in 1..Len(strand') : strand'[i].op # "read_some"
    BY <2>3 DEF Reads
  <2>5. Counted(reading', strand', parsed' + incoming', arrived')
    BY <2>1, <2>2, <2>3, <2>4 DEF Counted
  <2> QED
    BY <1>4, <2>1, <2>5 DEF ReadInv, Counted
<1>6. CASE RunReadSome
  <2> DEFINE available == incoming + Head(strand).n
             read == Task("read", <<>>, 0)
  <2>1. /\ strand' = Append(Tail(strand), read)
        /\ parsed' = parsed + Parse(available) /\ incoming' = available - Parse(available)
        /\ UNCHANGED <<stage, reading, arrived>>
    BY <1>6 DEF RunReadSome
  <2>2. read \in Posted /\ read.op = "read"
    BY NoData DEF Tasks
  <2>3. available \in Nat /\ parsed + available = arrived
    BY <1>2, <1>3, <1>6 DEF RunReadSome, Running
  <2> HIDE DEF available, read
  <2>4. Parse(available) \in Nat
    BY <2>3, ParseTypes
  <2>5. parsed' + incoming' = arrived'
    BY <1>2, <2>1, <2>3, <2>4
  <2>6. parsed' % FrameSize = 0
    BY <1>2, <2>1, <2>3, FramesParsed DEF ReadInv
  <2>7. reading = FALSE /\ \A i \in 1..Len(Tail(strand)) : ~Reads(Tail(strand)[i])
    BY <1>2, <1>3 DEF NobodyReads
  <2>8. Counted(FALSE, strand', parsed' + incoming', arrived')
    BY <1>2, <2>1, <2>2, <2>5, <2>7, ReaderPosted DEF Reads
  <2> QED
    BY <1>4, <2>1, <2>6, <2>7, <2>8 DEF ReadInv, Counted
<1> QED
  BY <1>5, <1>6

(* Every step preserves the invariant.                                     *)
LEMMA ReadInvNext == TypeOK /\ ReadInv /\ [Next]_vars => ReadInv'
<1> SUFFICES ASSUME TypeOK, ReadInv, [Next]_vars PROVE ReadInv'
  OBVIOUS
<1>1. CASE Next
  BY <1>1, WritersKeep, BeginReads, ReadEnds, ReadersRun DEF Next, RunStrand
<1>2. CASE UNCHANGED vars
  BY <1>2, Undisturbed DEF vars
<1> QED
  BY <1>1, <1>2

-----------------------------------------------------------------------------
(* The theorem.                                                            *)

(* Every byte read from the socket is parsed once, in whole frames, or is  *)
(* kept in incoming_ in front of the next read, or on its way there, with  *)
(* the one function that was posted for it.                                *)
THEOREM EachByteParsedOnce == Spec => []ParsedOnce
<1>1. TypeOK /\ ReadInv => ParsedOnce
  <2> SUFFICES ASSUME TypeOK, ReadInv PROVE ParsedOnce
    OBVIOUS
  <2>1. /\ parsed \in Nat /\ incoming \in Nat /\ arrived \in Nat
        /\ MaxArrived \in Nat /\ arrived <= MaxArrived /\ parsed % FrameSize = 0
    BY AmqpConstants DEF TypeOK, ReadInv
  <2>2. CASE \A i \in 1..Len(strand) : strand[i].op # "read_some"
    <3>1. parsed + incoming + 0 = arrived /\ 0 \in 0..MaxArrived
      BY <2>1, <2>2 DEF ReadInv, Counted
    <3> QED
      BY <2>1, <3>1 DEF ParsedOnce
  <2>3. ASSUME NEW i \in 1..Len(strand), strand[i].op = "read_some" PROVE ParsedOnce
    <3> DEFINE n == strand[i].n
    <3>1. n \in Nat
      BY StrandTypes, PostedTypes
    <3>2. parsed + incoming + n = arrived
      BY <2>3 DEF ReadInv, Counted
    <3> HIDE DEF n
    <3>3. n \in 0..MaxArrived
      BY <2>1, <3>1, <3>2
    <3> QED
      BY <2>1, <2>3, <3>2, <3>3 DEF ParsedOnce, n
  <2> QED
    BY <2>2, <2>3
<1> QED
  BY <1>1, ReadInvInit, ReadInvNext, TypeCorrect, PTL DEF Spec
=============================================================================
