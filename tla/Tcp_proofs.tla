----------------------------- MODULE Tcp_proofs -----------------------------
(***************************************************************************)
(* Proofs about the outgoing side of a stream, for any number of threads,  *)
(* writes, clients and messages: strings are written one at a time and in  *)
(* the order of the calls. What makes it so is sending_: only one thread   *)
(* finds it clear, and it is set for as long as a string is on its way and *)
(* until the handler that reported it has entered its critical section.    *)
(***************************************************************************)
EXTENDS Tcp, TLAPS

StreamType ==
  /\ pc \in [Threads -> {"idle", "check", "start", "clear"}]
  /\ hand \in [Threads -> Nat]
  /\ outgoing \in Seq(Nat) /\ sent \in Seq(Nat)
  /\ sending \in BOOLEAN
  /\ given \in Nat
  /\ writing \subseteq Nat

(* A thread with a string in its hand, or that is about to clear sending_. *)
Busy(t) == pc[t] \in {"start", "clear"}

OneBusy ==
  /\ \A m, n \in writing : m = n
  /\ writing # {} => sending
  /\ \A t \in Threads : Busy(t) =>
       sending /\ writing = {} /\ \A u \in Threads \ {t} : ~Busy(u)

(* The strings that are still in the queue are the last ones given; and    *)
(* the one before them is the next to be reported, or was reported last,   *)
(* unless it is the one that failed.                                       *)
AllSent == given = Len(sent) + Len(outgoing)

NextSent(m) == m = Len(sent) + 1 /\ given = Len(sent) + 1 + Len(outgoing)

InOrder ==
  /\ \A i \in 1..Len(sent) : sent[i] = i
  /\ \A i \in 1..Len(outgoing) : outgoing[i] = given - Len(outgoing) + i
  /\ ~sending => AllSent
  /\ \A t \in Threads : pc[t] = "clear" => AllSent
  /\ \A t \in Threads : pc[t] = "start" => NextSent(hand[t])
  /\ \A m \in writing : NextSent(m)

StreamInv == StreamType /\ OneBusy /\ InOrder

-----------------------------------------------------------------------------
LEMMA AppendFacts ==
  ASSUME NEW S, NEW s \in Seq(S), NEW e \in S
  PROVE  /\ Len(s) \in Nat
         /\ Append(s, e) \in Seq(S)
         /\ Len(Append(s, e)) = Len(s) + 1
         /\ Append(s, e)[Len(s) + 1] = e
         /\ \A i \in 1..Len(s) : Append(s, e)[i] = s[i]
OBVIOUS

LEMMA TailFacts ==
  ASSUME NEW S, NEW s \in Seq(S), s # <<>>
  PROVE  /\ Len(s) \in Nat \ {0}
         /\ Head(s) = s[1] /\ s[1] \in S
         /\ Tail(s) \in Seq(S)
         /\ Len(Tail(s)) = Len(s) - 1
         /\ \A i \in 1..Len(Tail(s)) : Tail(s)[i] = s[i + 1]
<1>1. Len(s) \in Nat /\ Len(s) # 0  OBVIOUS
<1>2. Head(s) = s[1] /\ Tail(s) \in Seq(S) /\ Len(Tail(s)) = Len(s) - 1  OBVIOUS
<1>3. \A i \in 1..Len(Tail(s)) : Tail(s)[i] = s[i + 1]  OBVIOUS
<1>4. s[1] \in S  BY <1>1
<1> QED  BY <1>1, <1>2, <1>3, <1>4

LEMMA StreamInvInit == Init => StreamInv
<1> SUFFICES ASSUME Init PROVE StreamInv  OBVIOUS
<1> USE DEF Init
<1>1. StreamType
  <2>1. pc \in [Threads -> {"idle", "check", "start", "clear"}]  OBVIOUS
  <2>2. hand \in [Threads -> Nat]  OBVIOUS
  <2>3. outgoing \in Seq(Nat) /\ sent \in Seq(Nat) /\ given \in Nat  OBVIOUS
  <2>4. sending \in BOOLEAN /\ writing \subseteq Nat  OBVIOUS
  <2> QED  BY <2>1, <2>2, <2>3, <2>4 DEF StreamType
<1>2. OneBusy  BY DEF OneBusy, Busy
<1>3. /\ Len(sent) = 0 /\ Len(outgoing) = 0 /\ given = 0 /\ writing = {}
      /\ \A t \in Threads : pc[t] = "idle"
  OBVIOUS
<1>4. InOrder
  <2> HIDE DEF Init
  <2> QED  BY <1>3 DEF InOrder, AllSent
<1> QED  BY <1>1, <1>2, <1>4 DEF StreamInv

LEMMA StreamInvUnchanged == StreamInv /\ UNCHANGED streamVars => StreamInv'
BY DEF StreamInv, streamVars, StreamType, OneBusy, Busy, InOrder, AllSent, NextSent

LEMMA StreamInvPush ==
  ASSUME StreamInv, NEW t \in Callers, Push(t) PROVE StreamInv'
<1> USE DEF StreamInv, Push, Threads
<1>1. StreamType'  BY DEF StreamType
<1>2. OneBusy'  BY DEF OneBusy, Busy, StreamType
<1>3. Len(outgoing') = Len(outgoing) + 1 /\ Len(outgoing) \in Nat /\ Len(sent) \in Nat
  BY DEF StreamType
<1>4. ASSUME NEW i \in 1..Len(outgoing') PROVE outgoing'[i] = given' - Len(outgoing') + i
  <2>1. CASE i \in 1..Len(outgoing)
    <3>1. outgoing'[i] = outgoing[i]  BY <2>1 DEF StreamType
    <3> QED  BY <3>1, <2>1, <1>3 DEF StreamType, InOrder
  <2>2. CASE i = Len(outgoing) + 1
    <3>1. outgoing'[i] = given + 1  BY <2>2 DEF StreamType
    <3> QED  BY <3>1, <2>2, <1>3 DEF StreamType
  <2> QED  BY <2>1, <2>2, <1>3
<1>5. \A u \in Threads : pc'[u] \in {"start", "clear"} => pc[u] = pc'[u]
  BY DEF StreamType
<1>6. AllSent => AllSent'  BY <1>3 DEF AllSent, StreamType
<1>7. ASSUME NEW n \in Nat, NextSent(n)
      PROVE  n = Len(sent') + 1 /\ given' = Len(sent') + 1 + Len(outgoing')
  BY <1>3, <1>7 DEF NextSent, StreamType
<1>8. InOrder'
  <2>1. \A i \in 1..Len(sent') : sent'[i] = i  BY DEF InOrder
  <2>2. ~sending' => AllSent'  BY <1>6 DEF InOrder
  <2>3. \A u \in Threads : pc'[u] = "clear" => AllSent'  BY <1>5, <1>6 DEF InOrder
  <2>4. \A u \in Threads : pc'[u] = "start" => NextSent(hand[u])'
    BY <1>5, <1>7 DEF InOrder, StreamType, NextSent
  <2>5. \A n \in writing' : n = Len(sent') + 1 /\ given' = Len(sent') + 1 + Len(outgoing')
    BY <1>7 DEF InOrder, StreamType
  <2> QED  BY <1>4, <2>1, <2>2, <2>3, <2>4, <2>5 DEF InOrder, NextSent
<1> QED  BY <1>1, <1>2, <1>8

LEMMA StreamInvCheck ==
  ASSUME StreamInv, NEW t \in Threads, Check(t) PROVE StreamInv'
<1> USE DEF StreamInv, Check
<1>1. CASE MayTake
  <2> USE <1>1 DEF MayTake
  <2>1. /\ Len(outgoing) \in Nat \ {0} /\ Len(sent) \in Nat
        /\ outgoing' \in Seq(Nat) /\ Head(outgoing) = outgoing[1]
        /\ Len(outgoing') = Len(outgoing) - 1
        /\ \A i \in 1..Len(outgoing') : outgoing'[i] = outgoing[i + 1]
        /\ outgoing[1] \in Nat
    <3>1. outgoing \in Seq(Nat) /\ sent \in Seq(Nat) /\ outgoing # <<>>
          /\ outgoing' = Tail(outgoing)
      BY DEF StreamType
    <3> QED  BY <3>1, TailFacts
  <2>2. StreamType'  BY <2>1 DEF StreamType
  <2>3. OneBusy'  BY DEF OneBusy, Busy, StreamType
  <2>4. AllSent /\ outgoing[1] = given - Len(outgoing) + 1
    BY <2>1 DEF InOrder, StreamType
  <2>5. NextSent(hand[t])'
    <3>1. hand'[t] = outgoing[1]  BY <2>1 DEF StreamType
    <3> QED  BY <3>1, <2>1, <2>4 DEF AllSent, NextSent, StreamType
  <2>6. \A u \in Threads : u # t => ~Busy(u) /\ ~Busy(u)'
    BY DEF OneBusy, Busy, StreamType
  <2>7. \A i \in 1..Len(outgoing') : outgoing'[i] = given' - Len(outgoing') + i
    BY <2>1 DEF InOrder, StreamType
  <2>8. pc'[t] = "start" /\ writing = {} /\ sending'
    BY DEF OneBusy, StreamType
  <2>9. InOrder'
    BY <2>5, <2>6, <2>7, <2>8 DEF InOrder, Busy
  <2> QED  BY <2>2, <2>3, <2>9
<1>2. CASE ~MayTake
  <2>1. StreamType'  BY <1>2 DEF StreamType
  <2>2. OneBusy'  BY <1>2 DEF OneBusy, Busy, StreamType
  <2>3. InOrder'  BY <1>2 DEF InOrder, AllSent, NextSent, StreamType
  <2> QED  BY <2>1, <2>2, <2>3
<1> QED  BY <1>1, <1>2

LEMMA StreamInvStartWrite ==
  ASSUME StreamInv, NEW t \in Threads, StartWrite(t) PROVE StreamInv'
<1> USE DEF StreamInv, StartWrite
<1>1. StreamType'  BY DEF StreamType
<1>2. Busy(t) /\ writing' = {hand[t]} /\ sending
  BY DEF OneBusy, Busy
<1>3. \A u \in Threads : ~Busy(u)'
  BY <1>2 DEF OneBusy, Busy, StreamType
<1>4. OneBusy'  BY <1>2, <1>3 DEF OneBusy
<1>5. NextSent(hand[t])'  BY DEF InOrder, NextSent
<1>6. InOrder'
  <2>1. \A m \in writing' : NextSent(m)'  BY <1>2, <1>5 DEF NextSent
  <2> QED  BY <1>2, <1>3, <2>1 DEF InOrder, Busy
<1> QED  BY <1>1, <1>4, <1>6

LEMMA StreamInvWriteDone ==
  ASSUME StreamInv, NEW t \in Workers, NEW m \in writing, WriteDone(t, m) PROVE StreamInv'
<1> USE DEF StreamInv, WriteDone, Threads
<1>1. writing' = {} /\ sending /\ sending'  BY DEF OneBusy
<1>2. \A u \in Threads : ~Busy(u)  BY DEF OneBusy
<1>3. NextSent(m)  BY DEF InOrder
<1>4. CASE sent' = Append(sent, m) /\ pc' = [pc EXCEPT ![t] = "clear"]
  <2>1. /\ Len(sent) \in Nat /\ m \in Nat /\ Len(outgoing) \in Nat
        /\ sent' \in Seq(Nat) /\ Len(sent') = Len(sent) + 1
        /\ sent'[Len(sent) + 1] = m
        /\ \A i \in 1..Len(sent) : sent'[i] = sent[i]
    <3>1. m \in Nat /\ sent \in Seq(Nat) /\ outgoing \in Seq(Nat)
      BY DEF StreamType
    <3>2. sent' = Append(sent, m)  BY <1>4
    <3> QED  BY <3>1, <3>2, AppendFacts
  <2>2. StreamType'  BY <1>4, <2>1 DEF StreamType
  <2>3. OneBusy'  BY <1>1, <1>2, <1>4 DEF OneBusy, Busy, StreamType
  <2>4. AllSent'  BY <1>3, <1>4, <2>1 DEF AllSent, NextSent, StreamType
  <2>5. \A i \in 1..Len(sent') : sent'[i] = i
    <3>1. m = Len(sent) + 1 /\ \A i \in 1..Len(sent) : sent[i] = i
      BY <1>3 DEF InOrder, NextSent
    <3>2. \A i \in 1..Len(sent') : i \in 1..Len(sent) \/ i = Len(sent) + 1  BY <2>1
    <3> QED  BY <2>1, <3>1, <3>2
  <2>6. \A u \in Threads : pc'[u] # "start"
    BY <1>2, <1>4 DEF Busy, StreamType
  <2>7. InOrder'  BY <1>1, <1>4, <2>4, <2>5, <2>6 DEF InOrder
  <2> QED  BY <2>2, <2>3, <2>7
<1>5. CASE sent' = sent /\ pc' = [pc EXCEPT ![t] = "check"]
  <2>1. StreamType'  BY <1>5 DEF StreamType
  <2>2. \A u \in Threads : ~Busy(u)'  BY <1>2, <1>5 DEF Busy, StreamType
  <2>3. OneBusy'  BY <1>1, <2>2 DEF OneBusy
  <2>4. InOrder'  BY <1>1, <1>5, <2>2 DEF InOrder, Busy
  <2> QED  BY <2>1, <2>3, <2>4
<1> QED  BY <1>4, <1>5

LEMMA StreamInvClear ==
  ASSUME StreamInv, NEW t \in Threads, Clear(t) PROVE StreamInv'
<1> USE DEF StreamInv, Clear
<1>1. StreamType'  BY DEF StreamType
<1>2. Busy(t) /\ writing = {} /\ AllSent  BY DEF OneBusy, Busy, InOrder
<1>3. \A u \in Threads : ~Busy(u)'  BY <1>2 DEF OneBusy, Busy, StreamType
<1>4. OneBusy'  BY <1>2, <1>3 DEF OneBusy
<1>5. AllSent'  BY <1>2 DEF AllSent
<1>6. InOrder'  BY <1>2, <1>3, <1>5 DEF InOrder, Busy
<1> QED  BY <1>1, <1>4, <1>6

LEMMA StreamInvNext == StreamInv /\ [Next]_vars => StreamInv'
<1> SUFFICES ASSUME StreamInv, [Next]_vars PROVE StreamInv'  OBVIOUS
<1>1. ASSUME NEW c \in Clients, Connect(c) \/ Resolved(c) \/ Connected(c) \/ Accepted(c)
      PROVE  StreamInv'
  BY <1>1, StreamInvUnchanged DEF Connect, Resolved, Connected, Accepted
<1>2. CASE Listen \/ ListenResolved \/ AcceptError
  BY <1>2, StreamInvUnchanged DEF Listen, ListenResolved, AcceptError
<1>3. ASSUME NEW t \in Callers, Push(t) PROVE StreamInv'  BY <1>3, StreamInvPush
<1>4. ASSUME NEW t \in Threads, Thread(t) PROVE StreamInv'
  BY <1>4, StreamInvCheck, StreamInvStartWrite, StreamInvClear DEF Thread
<1>5. CASE Handlers  BY <1>5, StreamInvWriteDone DEF Handlers
<1>6. CASE Arrive \/ StartReading \/ Lose
  BY <1>6, StreamInvUnchanged DEF Arrive, StartReading, Lose
<1>7. CASE Reading  BY <1>7, StreamInvUnchanged DEF Reading, ReadSome, ReadError
<1>8. CASE UNCHANGED vars  BY <1>8, StreamInvUnchanged DEF vars
<1> QED  BY <1>1, <1>2, <1>3, <1>4, <1>5, <1>6, <1>7, <1>8 DEF Next

THEOREM StreamInvariant == Spec => []StreamInv
<1> QED  BY StreamInvInit, StreamInvNext, PTL DEF Spec

(* Two strings are never on their way at once, whichever threads call      *)
(* write() and run the handlers: check_outgoing() takes one out of the     *)
(* queue only in the critical section that sets sending_.                  *)
THEOREM WritesOneAtATime == Spec => []OneWriteAtATime
<1>1. StreamInv => OneWriteAtATime
  BY DEF StreamInv, OneBusy, Busy, OneWriteAtATime
<1> QED  BY <1>1, StreamInvariant, PTL

(* What the peer gets is a beginning of what write() was given, in order   *)
(* and without gaps; and a stream that is not sending has sent all that is *)
(* not in its queue.                                                       *)
THEOREM WritesInOrder == Spec => []SentInOrder
<1>1. StreamInv => SentInOrder
  <2> SUFFICES ASSUME StreamInv PROVE SentInOrder  OBVIOUS
  <2> USE DEF StreamInv
  <2>1. Len(sent) \in Nat /\ Len(outgoing) \in Nat  BY DEF StreamType
  <2>2. sent = [i \in 1..Len(sent) |-> sent[i]]  BY DEF StreamType
  <2>3. sent = [i \in 1..Len(sent) |-> i]  BY <2>2 DEF InOrder
  <2>4. ASSUME ~sending
        PROVE  outgoing = [i \in 1..given - Len(sent) |-> Len(sent) + i]
    <3>1. given = Len(sent) + Len(outgoing)  BY <2>4 DEF InOrder, AllSent
    <3>2. outgoing = [i \in 1..Len(outgoing) |-> outgoing[i]]  BY DEF StreamType
    <3>3. \A i \in 1..Len(outgoing) : outgoing[i] = Len(sent) + i
      BY <2>1, <3>1 DEF InOrder
    <3>4. given - Len(sent) = Len(outgoing)  BY <2>1, <3>1
    <3> QED  BY <3>2, <3>3, <3>4
  <2> QED  BY <2>3, <2>4 DEF SentInOrder
<1> QED  BY <1>1, StreamInvariant, PTL
=============================================================================
