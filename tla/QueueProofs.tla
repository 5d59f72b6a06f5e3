----------------------------- MODULE QueueProofs -----------------------------
(***************************************************************************)
(* The pointer operations of queue.c keep every queue a proper list, and    *)
(* implement FIFO, for any number of queues and items.                      *)
(***************************************************************************)
EXTENDS Queue, TLAPS

Represents(q) == EndsRepresent(q) /\ NextRepresents(q) /\ PrevRepresents(q)

\* The inductive invariant: with the types and the representation goes that
\* no item is linked twice, without which a store into an item of one queue
\* could damage another.
Inv == TypeOK /\ (~halted => OnOneQueue /\ \A q \in Queues : Represents(q))

LEMMA InitInv == Init => Inv
<1> SUFFICES ASSUME Init PROVE Inv
  OBVIOUS
<1>0. <<>> \in Seq(Items) /\ Len(<<>>) = 0
  OBVIOUS
<1>1. TypeOK
  BY <1>0 DEF Init, TypeOK
<1>2. OnOneQueue
  BY <1>0 DEF Init, OnOneQueue
<1>3. ASSUME NEW q \in Queues PROVE Represents(q)
  <2>1. content[q] = <<>> /\ head[q] = Null /\ tail[q] = Null
    BY DEF Init
  <2> QED BY <1>0, <2>1 DEF Represents, EndsRepresent, NextRepresents, PrevRepresents
<1> QED BY <1>1, <1>2, <1>3 DEF Inv

\* The ends of a queue that is not empty.
LEMMA Ends ==
  ASSUME NEW q \in Queues, TypeOK, Represents(q)
  PROVE  /\ content[q] \in Seq(Items) /\ Len(content[q]) \in Nat
         /\ head[q] = Null <=> content[q] = <<>>
         /\ content[q] # <<>> => /\ Len(content[q]) >= 1
                                 /\ head[q] = content[q][1]
                                 /\ tail[q] = content[q][Len(content[q])]
                                 /\ head[q] \in Items /\ tail[q] \in Items
<1>1. content[q] \in Seq(Items) /\ Len(content[q]) \in Nat
  BY DEF TypeOK
<1>2. content[q] # <<>> => Len(content[q]) >= 1
  BY <1>1
<1>3. \A n \in 1..Len(content[q]) : content[q][n] \in Items
  BY <1>1
<1> QED BY <1>1, <1>2, <1>3, NullNotItem DEF Represents, EndsRepresent

LEMMA PushInv ==
  ASSUME NEW q \in Queues, NEW i \in Items, Inv, queue_push(q, i)
  PROVE  Inv'
<1> DEFINE c == content[q]
<1>0. /\ TypeOK /\ OnOneQueue /\ (\A r \in Queues : Represents(r)) /\ ~halted
      /\ c \in Seq(Items) /\ Len(c) \in Nat
      /\ \A r \in Queues : content[r] \in Seq(Items)
  BY DEF Inv, queue_push, TypeOK
<1>1. TypeOK' 
  <2>1. content' \in [Queues -> Seq(Items)]
    BY <1>0 DEF TypeOK, queue_push
  <2>2. head[q] # Null => tail[q] \in Items
    BY <1>0, Ends DEF TypeOK
  <2> QED BY <1>0, <2>1, <2>2, ZenonT(80) DEF TypeOK, queue_push
<1>2. /\ content'[q] = Append(c, i) /\ Len(content'[q]) = Len(c) + 1
      /\ content'[q][Len(c) + 1] = i
      /\ \A n \in 1..Len(c) : content'[q][n] = c[n]
      /\ \A r \in Queues \ {q} : content'[r] = content[r]
  BY <1>0 DEF TypeOK, queue_push
<1>3. \A r \in Queues : \A n \in 1..Len(content[r]) : content[r][n] # i
  BY DEF queue_push, Linked
<1>4. OnOneQueue'
  <2> SUFFICES ASSUME NEW r \in Queues, NEW s \in Queues,
                      NEW n \in 1..Len(content'[r]), NEW m \in 1..Len(content'[s]),
                      content'[r][n] = content'[s][m]
               PROVE  r = s /\ n = m
    BY DEF OnOneQueue
  <2>1. CASE r = q /\ n = Len(c) + 1
    BY <2>1, <1>0, <1>2, <1>3, SMTT(40)
  <2>2. CASE s = q /\ m = Len(c) + 1
    BY <2>2, <1>0, <1>2, <1>3
  <2>3. CASE (r # q \/ n # Len(c) + 1) /\ (s # q \/ m # Len(c) + 1)
    <3>1. n \in 1..Len(content[r]) /\ content'[r][n] = content[r][n]
      BY <2>3, <1>0, <1>2, SMTT(40)
    <3>2. m \in 1..Len(content[s]) /\ content'[s][m] = content[s][m]
      BY <2>3, <1>0, <1>2, SMTT(60)
    <3>3. content[r][n] = content[s][m]
      BY <3>1, <3>2
    <3>4. OnOneQueue
      BY <1>0
    <3> QED BY <3>1, <3>2, <3>3, <3>4 DEF OnOneQueue
  <2> QED BY <2>1, <2>2, <2>3
<1>5. ASSUME NEW r \in Queues PROVE Represents(r)'
  <2>0. /\ head[q] = Null <=> c = <<>>
        /\ c = <<>> => Len(c) = 0
        /\ c # <<>> => Len(c) >= 1 /\ head[q] = c[1] /\ tail[q] = c[Len(c)] /\ tail[q] \in Items
    BY <1>0, Ends
  <2>1. EndsRepresent(r)'
    <3>1. CASE r = q
      <4>1. /\ content'[r] # <<>> /\ Len(content'[r]) = Len(c) + 1
            /\ content'[r][Len(content'[r])] = i
        BY <3>1, <1>0, <1>2
      <4>2. tail'[r] = i /\ head'[r] = content'[r][1]
        BY <3>1, <1>0, <1>2, <2>0 DEF queue_push, TypeOK
      <4> QED BY <4>1, <4>2 DEF EndsRepresent
    <3>2. CASE r # q
      BY <3>2, <1>0, <1>2 DEF Represents, EndsRepresent, queue_push, TypeOK
    <3> QED BY <3>1, <3>2
  <2>2. NextRepresents(r)'
    BY <1>0, <1>2, <1>3, <2>0 DEF Represents, NextRepresents, queue_push, TypeOK, OnOneQueue
  <2>3. PrevRepresents(r)'
    BY <1>0, <1>2, <1>3, <2>0 DEF Represents, PrevRepresents, queue_push, TypeOK
  <2> QED BY <2>1, <2>2, <2>3 DEF Represents
<1> QED BY <1>1, <1>4, <1>5 DEF Inv

\* What queue_dequeue and queue_remove make of the pointers when the first item
\* of a queue leaves.
FrontOut(q) ==
  LET i == head[q]
      n == next[i]
  IN  /\ head' = [head EXCEPT ![q] = n]
      /\ tail' = IF n = Null THEN [tail EXCEPT ![q] = Null] ELSE tail
      /\ next' = [next EXCEPT ![i] = Null]
      /\ prev' = IF n = Null THEN [prev EXCEPT ![i] = Null]
                 ELSE [prev EXCEPT ![n] = Null, ![i] = Null]
      /\ content' = [content EXCEPT ![q] = Tail(@)]
      /\ halted' = halted

LEMMA FrontOutInv ==
  ASSUME NEW q \in Queues, Inv, ~halted, content[q] # <<>>,
         FrontOut(q), ret' \in Items \cup {Null}
  PROVE  Inv'
<1> DEFINE c == content[q]
           L == Len(c)
<1>0. /\ TypeOK /\ OnOneQueue /\ (\A r \in Queues : Represents(r))
      /\ c \in Seq(Items) /\ L \in Nat
      /\ \A r \in Queues : content[r] \in Seq(Items) /\ Len(content[r]) \in Nat
  BY DEF Inv, TypeOK
<1>1. /\ L >= 1 /\ head[q] = c[1] /\ tail[q] = c[L] /\ c[1] \in Items
      /\ next[c[1]] = IF L = 1 THEN Null ELSE c[2]
      /\ L > 1 => c[2] \in Items /\ c[2] # c[1]
  <2>1. L >= 1 /\ head[q] = c[1] /\ tail[q] = c[L]
    BY <1>0, Ends
  <2>2. \A n \in 1..L : c[n] \in Items
    BY <1>0
  <2>3. \A n \in 1..L : next[c[n]] = IF n = L THEN Null ELSE c[n + 1]
    BY <1>0 DEF Represents, NextRepresents
  <2>4. L > 1 => c[2] # c[1]
    BY <1>0 DEF OnOneQueue
  <2>5. L \in Nat
    BY <1>0
  <2>6. 1 \in 1..L /\ (L > 1 => 2 \in 1..L) /\ 1 + 1 = 2
    BY <2>1, <2>5
  <2>7. c[1] \in Items /\ (L > 1 => c[2] \in Items)
    BY <2>2, <2>6
  <2>8. next[c[1]] = IF L = 1 THEN Null ELSE c[2]
    BY <2>3, <2>6
  <2> QED BY <2>1, <2>4, <2>7, <2>8
<1>a. OnOneQueue
  BY <1>0
<1>c. L = 1 \/ L > 1
  <2>1. L \in Nat /\ L >= 1
    BY <1>0, <1>1
  <2>2. \A x \in Nat : x >= 1 => x = 1 \/ x > 1
    OBVIOUS
  <2> QED BY <2>1, <2>2
<1>b. /\ L = 1 => prev' = [prev EXCEPT ![c[1]] = Null]
      /\ L > 1 => prev' = [prev EXCEPT ![c[2]] = Null, ![c[1]] = Null]
  <2>1. L = 1 => next[head[q]] = Null
    BY <1>1
  <2>2. L > 1 => next[head[q]] = c[2] /\ c[2] # Null
    BY <1>1, NullNotItem
  <2>3. head[q] = c[1]
    BY <1>1
  <2> QED BY <2>1, <2>2, <2>3 DEF FrontOut
<1>2. /\ content'[q] = Tail(c) /\ Tail(c) \in Seq(Items) /\ Len(content'[q]) = L - 1
      /\ \A n \in 1..(L - 1) : content'[q][n] = c[n + 1]
      /\ \A r \in Queues \ {q} : content'[r] = content[r]
  BY <1>0, <1>1 DEF TypeOK, FrontOut
<1>3. TypeOK'
  <2>1. content' \in [Queues -> Seq(Items)]
    BY <1>0, <1>2 DEF TypeOK, FrontOut
  <2> QED BY <1>0, <1>1, <2>1, NullNotItem DEF TypeOK, FrontOut
<1>4. \A r \in Queues : \A n \in 1..Len(content'[r]) :
         \E m \in 1..Len(content[r]) : /\ content'[r][n] = content[r][m]
                                       /\ m = IF r = q THEN n + 1 ELSE n
  <2> SUFFICES ASSUME NEW r \in Queues, NEW n \in 1..Len(content'[r])
               PROVE \E m \in 1..Len(content[r]) : /\ content'[r][n] = content[r][m]
                                                   /\ m = IF r = q THEN n + 1 ELSE n
    OBVIOUS
  <2>1. CASE r = q
    BY <2>1, <1>0, <1>1, <1>2
  <2>2. CASE r # q
    BY <2>2, <1>0, <1>2
  <2> QED BY <2>1, <2>2
<1>5. OnOneQueue'
  <2> SUFFICES ASSUME NEW r \in Queues, NEW s \in Queues,
                      NEW n \in 1..Len(content'[r]), NEW m \in 1..Len(content'[s]),
                      content'[r][n] = content'[s][m]
               PROVE  r = s /\ n = m
    BY DEF OnOneQueue
  <2>1. PICK n2 \in 1..Len(content[r]) : /\ content'[r][n] = content[r][n2]
                                         /\ n2 = IF r = q THEN n + 1 ELSE n
    BY <1>4
  <2>2. PICK m2 \in 1..Len(content[s]) : /\ content'[s][m] = content[s][m2]
                                         /\ m2 = IF s = q THEN m + 1 ELSE m
    BY <1>4
  <2>3. r = s /\ n2 = m2
    <3>1. content[r][n2] = content[s][m2]
      BY <2>1, <2>2
    <3> QED BY <3>1, <1>a DEF OnOneQueue
  <2>4. n \in Nat /\ m \in Nat
    BY <1>3 DEF TypeOK
  <2> QED BY <2>1, <2>2, <2>3, <2>4
<1>6. \* the first item is found nowhere afterwards
      \A r \in Queues : \A n \in 1..Len(content'[r]) :
          content'[r][n] # c[1] /\ content'[r][n] \in Items
  <2> SUFFICES ASSUME NEW r \in Queues, NEW n \in 1..Len(content'[r])
               PROVE content'[r][n] # c[1] /\ content'[r][n] \in Items
    OBVIOUS
  <2>1. PICK m \in 1..Len(content[r]) : /\ content'[r][n] = content[r][m]
                                        /\ m = IF r = q THEN n + 1 ELSE n
    BY <1>4
  <2>2. content[r][m] = c[1] => r = q /\ m = 1
    BY <1>0, <1>1 DEF OnOneQueue
  <2>3. n >= 1
    BY <1>3 DEF TypeOK
  <2> QED BY <2>1, <2>2, <2>3, <1>0
<1>7. ASSUME NEW r \in Queues PROVE Represents(r)'
  <2>1. EndsRepresent(r)'
    <3>1. CASE r = q /\ L = 1
      BY <3>1, <1>0, <1>1, <1>2 DEF TypeOK, FrontOut, EndsRepresent
    <3>2. CASE r = q /\ L > 1
      <4>1. /\ content'[q] # <<>> /\ content'[q][1] = c[2]
            /\ content'[q][Len(content'[q])] = c[L]
        <5>1. Len(<<>>) = 0 /\ L \in Nat
          BY <1>0
        <5>2. 1 \in 1..(L - 1) /\ L - 1 \in 1..(L - 1) /\ 1 + 1 = 2 /\ (L - 1) + 1 = L
          BY <3>2, <5>1
        <5>3. content'[q][1] = c[2] /\ content'[q][L - 1] = c[L]
          BY <5>2, <1>2
        <5>4. Len(content'[q]) = L - 1 /\ L - 1 # 0
          BY <3>2, <5>1, <1>2, SMTT(40)
        <5> QED BY <5>1, <5>3, <5>4
      <4>2. head'[q] = c[2] /\ tail'[q] = c[L]
        BY <3>2, <1>0, <1>1, NullNotItem DEF TypeOK, FrontOut
      <4>3. /\ content'[r] # <<>> /\ head'[r] = content'[r][1]
            /\ tail'[r] = content'[r][Len(content'[r])]
        BY <3>2, <4>1, <4>2
      <4> QED BY <4>3 DEF EndsRepresent
    <3>3. CASE r # q
      BY <3>3, <1>0, <1>2 DEF TypeOK, FrontOut, EndsRepresent, Represents
    <3> QED BY <3>1, <3>2, <3>3, <1>c
  <2>2. NextRepresents(r)'
    <3> SUFFICES ASSUME NEW n \in 1..Len(content'[r])
                 PROVE  next'[content'[r][n]] =
                          IF n = Len(content'[r]) THEN Null ELSE content'[r][n + 1]
      BY DEF NextRepresents
    <3>1. next'[content'[r][n]] = next[content'[r][n]]
      BY <1>6, <1>1, <1>0 DEF TypeOK, FrontOut
    <3>2. CASE r = q
      <4>1. n \in 1..(L - 1) /\ n + 1 \in 1..L /\ content'[r][n] = c[n + 1]
        BY <3>2, <1>0, <1>2
      <4>2. next[c[n + 1]] = IF n + 1 = L THEN Null ELSE c[n + 2]
        BY <4>1, <1>0 DEF Represents, NextRepresents
      <4> QED BY <3>1, <3>2, <4>1, <4>2, <1>0, <1>2
    <3>3. CASE r # q
      BY <3>1, <3>3, <1>0, <1>2 DEF Represents, NextRepresents
    <3> QED BY <3>2, <3>3
  <2>3. PrevRepresents(r)'
    <3> SUFFICES ASSUME NEW n \in 1..Len(content'[r])
                 PROVE  prev'[content'[r][n]] = IF n = 1 THEN Null ELSE content'[r][n - 1]
      BY DEF PrevRepresents
    <3>1. CASE r = q
      <4>1. n \in 1..(L - 1) /\ n + 1 \in 1..L /\ content'[r][n] = c[n + 1] /\ L > 1
        BY <3>1, <1>0, <1>2
      <4>2. prev[c[n + 1]] = c[n]
        BY <4>1, <1>0 DEF Represents, PrevRepresents
      <4>3. c[n + 1] # c[1] /\ (c[n + 1] = c[2] <=> n = 1)
        BY <4>1, <1>0 DEF OnOneQueue
      <4>4. prev' = [prev EXCEPT ![c[2]] = Null, ![c[1]] = Null]
        BY <4>1, <1>b
      <4>5. c[n + 1] \in Items
        BY <4>1, <1>0
      <4>6. n # 1 => content'[r][n - 1] = c[n]
        BY <3>1, <4>1, <1>0, <1>2
      <4> QED BY <4>1, <4>2, <4>3, <4>4, <4>5, <4>6, <1>0 DEF TypeOK
    <3>2. CASE r # q
      <4>1. content'[r][n] \in Items /\ content'[r][n] # c[1]
        BY <1>6
      <4>2. L > 1 => content'[r][n] # c[2]
        BY <3>2, <1>0, <1>1, <1>2 DEF OnOneQueue
      <4>3. prev'[content'[r][n]] = prev[content'[r][n]]
        <5>1. L = 1 \/ L > 1
          BY <1>c
        <5>2. prev \in [Items -> Items \cup {Null}]
          BY <1>0 DEF TypeOK
        <5> QED BY <4>1, <4>2, <5>1, <5>2, <1>b
      <4> QED BY <3>2, <4>3, <1>0, <1>2 DEF Represents, PrevRepresents
    <3> QED BY <3>1, <3>2
  <2> QED BY <2>1, <2>2, <2>3 DEF Represents
<1> QED BY <1>3, <1>5, <1>7 DEF Inv

LEMMA TailInv ==
  ASSUME NEW q \in Queues, NEW i \in Items, Inv, ~halted, content[q] # <<>>,
         RemoveTail(q, i)
  PROVE  Inv'
<1> DEFINE c == content[q]
           L == Len(c)
<1>0. /\ TypeOK /\ OnOneQueue /\ (\A r \in Queues : Represents(r))
      /\ c \in Seq(Items) /\ L \in Nat
      /\ \A r \in Queues : content[r] \in Seq(Items) /\ Len(content[r]) \in Nat
  BY DEF Inv, TypeOK
<1>a. OnOneQueue
  BY <1>0
<1>1. /\ L > 1 /\ L - 1 \in 1..L /\ i = c[L] /\ next[i] = Null
      /\ prev[i] = c[L - 1] /\ c[L - 1] \in Items /\ c[L - 1] # i
  <2>1. L >= 1 /\ head[q] = c[1] /\ tail[q] = c[L]
    BY <1>0, Ends
  <2>2. i = c[L] /\ c[L] # c[1]
    BY <2>1 DEF RemoveTail
  <2>3. L > 1 /\ L - 1 \in 1..L /\ L \in 1..L
    <3>1. \A x \in Nat : x >= 1 /\ x # 1 => x > 1 /\ x - 1 \in 1..x /\ x \in 1..x
      OBVIOUS
    <3> QED BY <3>1, <2>1, <2>2, <1>0
  <2>4. c[L - 1] \in Items /\ c[L - 1] # c[L]
    <3>1. c[L - 1] \in Items
      BY <2>3, <1>0
    <3>2. L - 1 # L
      BY <1>0
    <3> QED BY <2>3, <3>1, <3>2, <1>a DEF OnOneQueue
  <2>5. next[c[L]] = Null
    BY <2>3, <1>0 DEF Represents, NextRepresents
  <2>6. prev[c[L]] = c[L - 1]
    <3>1. \A n \in 1..L : prev[c[n]] = IF n = 1 THEN Null ELSE c[n - 1]
      BY <1>0 DEF Represents, PrevRepresents
    <3>2. L # 1
      BY <2>2
    <3> QED BY <2>3, <3>1, <3>2
  <2> QED BY <2>2, <2>3, <2>4, <2>5, <2>6
<1>2. /\ content'[q] = SubSeq(c, 1, L - 1) /\ content'[q] \in Seq(Items)
      /\ Len(content'[q]) = L - 1
      /\ \A n \in 1..(L - 1) : n \in 1..L /\ content'[q][n] = c[n]
      /\ \A r \in Queues \ {q} : content'[r] = content[r]
  BY <1>0, <1>1 DEF TypeOK, RemoveTail
<1>3. TypeOK'
  <2>1. content' \in [Queues -> Seq(Items)]
    BY <1>0, <1>2 DEF TypeOK, RemoveTail
  <2> QED BY <1>0, <1>1, <2>1 DEF TypeOK, RemoveTail
<1>4. \A r \in Queues : \A n \in 1..Len(content'[r]) :
          /\ n \in 1..Len(content[r]) /\ content'[r][n] = content[r][n]
          /\ content'[r][n] # i /\ content'[r][n] \in Items
  <2> SUFFICES ASSUME NEW r \in Queues, NEW n \in 1..Len(content'[r])
               PROVE  /\ n \in 1..Len(content[r]) /\ content'[r][n] = content[r][n]
                      /\ content'[r][n] # i /\ content'[r][n] \in Items
    OBVIOUS
  <2>1. n \in 1..Len(content[r]) /\ content'[r][n] = content[r][n] /\ (r = q => n # L)
    <3>1. CASE r = q
      BY <3>1, <1>0, <1>2
    <3>2. CASE r # q
      BY <3>2, <1>0, <1>2
    <3> QED BY <3>1, <3>2
  <2>2. L \in 1..L
    BY <1>0, <1>1
  <2>3. content[r][n] # i
    BY <2>1, <2>2, <1>a, <1>1, SMTT(40) DEF OnOneQueue
  <2>4. content[r][n] \in Items
    BY <2>1, <1>0
  <2> QED BY <2>1, <2>3, <2>4
<1>5. OnOneQueue'
  <2> SUFFICES ASSUME NEW r \in Queues, NEW s \in Queues,
                      NEW n \in 1..Len(content'[r]), NEW m \in 1..Len(content'[s]),
                      content'[r][n] = content'[s][m]
               PROVE  r = s /\ n = m
    BY DEF OnOneQueue
  <2>1. n \in 1..Len(content[r]) /\ m \in 1..Len(content[s]) /\ content[r][n] = content[s][m]
    BY <1>4
  <2> QED BY <2>1, <1>a DEF OnOneQueue
<1>6. ASSUME NEW r \in Queues PROVE Represents(r)'
  <2>1. EndsRepresent(r)'
    <3>1. CASE r = q
      <4>1. /\ L - 1 \in 1..(L - 1) /\ 1 \in 1..(L - 1) /\ L - 1 # 0
        BY <1>0, <1>1
      <4>2. content'[r][1] = c[1] /\ content'[r][Len(content'[r])] = c[L - 1]
        BY <3>1, <4>1, <1>2
      <4>3. content'[r] # <<>>
        BY <3>1, <4>1, <1>2
      <4>4. head'[r] = c[1] /\ tail'[r] = c[L - 1]
        <5>1. head[q] = c[1]
          BY <1>0, Ends
        <5> QED BY <3>1, <5>1, <1>0, <1>1 DEF TypeOK, RemoveTail
      <4> QED BY <4>2, <4>3, <4>4 DEF EndsRepresent
    <3>2. CASE r # q
      BY <3>2, <1>0, <1>2 DEF TypeOK, RemoveTail, EndsRepresent, Represents
    <3> QED BY <3>1, <3>2
  <2>2. NextRepresents(r)'
    <3> SUFFICES ASSUME NEW n \in 1..Len(content'[r])
                 PROVE  next'[content'[r][n]] =
                          IF n = Len(content'[r]) THEN Null ELSE content'[r][n + 1]
      BY DEF NextRepresents
    <3>0. next' = [next EXCEPT ![c[L - 1]] = Null, ![i] = Null]
      BY <1>1 DEF RemoveTail
    <3>n. next \in [Items -> Items \cup {Null}]
      BY <1>0 DEF TypeOK
    <3>i. /\ n \in 1..Len(content[r]) /\ content'[r][n] = content[r][n]
          /\ content[r][n] # i /\ content[r][n] \in Items
      BY <1>4
    <3>1. CASE r = q /\ n = L - 1
      BY <3>0, <3>1, <3>n, <3>i, <1>1, <1>2
    <3>2. CASE r # q \/ n # L - 1
      <4>1. content[r][n] # c[L - 1]
        BY <3>2, <3>i, <1>1, <1>a DEF OnOneQueue
      <4>2. next'[content'[r][n]] = next[content[r][n]]
        BY <4>1, <3>i, <3>0, <3>n
      <4>3. next[content[r][n]] = IF n = Len(content[r]) THEN Null ELSE content[r][n + 1]
        BY <3>i, <1>0 DEF Represents, NextRepresents
      <4>4. CASE r # q
        BY <4>2, <4>3, <4>4, <1>2
      <4>5. CASE r = q
        <5>1. n \in 1..(L - 1) /\ n # L - 1
          BY <3>2, <4>5, <1>2
        <5>2. n # L /\ n + 1 \in 1..(L - 1)
          BY <5>1, <1>0
        <5>3. content'[r][n + 1] = c[n + 1]
          BY <5>2, <4>5, <1>2
        <5> QED BY <5>1, <5>2, <5>3, <4>2, <4>3, <4>5, <1>2
      <4> QED BY <4>4, <4>5
    <3> QED BY <3>1, <3>2
  <2>3. PrevRepresents(r)'
    <3> SUFFICES ASSUME NEW n \in 1..Len(content'[r])
                 PROVE  prev'[content'[r][n]] = IF n = 1 THEN Null ELSE content'[r][n - 1]
      BY DEF PrevRepresents
    <3>1. /\ n \in 1..Len(content[r]) /\ content'[r][n] = content[r][n]
          /\ content[r][n] # i /\ content[r][n] \in Items
      BY <1>4
    <3>2. prev'[content'[r][n]] = prev[content[r][n]]
      BY <3>1, <1>0 DEF TypeOK, RemoveTail
    <3>3. prev[content[r][n]] = IF n = 1 THEN Null ELSE content[r][n - 1]
      BY <3>1, <1>0 DEF Represents, PrevRepresents
    <3>4. n # 1 => content'[r][n - 1] = content[r][n - 1]
      <4>1. n # 1 => n - 1 \in 1..Len(content'[r])
        BY <1>3 DEF TypeOK
      <4> QED BY <4>1, <1>4
    <3> QED BY <3>2, <3>3, <3>4
  <2> QED BY <2>1, <2>2, <2>3 DEF Represents
<1> QED BY <1>3, <1>5, <1>6 DEF Inv

\* queue_dequeue, and queue_remove of a head, take out the first item, and what
\* they return is what FIFO says.
LEMMA DequeueFront ==
  ASSUME NEW q \in Queues, Inv, queue_dequeue(q)
  PROVE  /\ ~halted /\ content[q] # <<>> /\ FrontOut(q)
         /\ ret' = Head(content[q]) /\ ret' \in Items \cup {Null}
<1>1. ~halted /\ TypeOK /\ Represents(q) /\ head[q] # Null
  BY DEF queue_dequeue, queue_is_empty, Inv
<1>2. /\ content[q] # <<>> /\ head[q] = content[q][1] /\ head[q] \in Items
      /\ content[q] \in Seq(Items)
  BY <1>1, Ends
<1>3. FrontOut(q) /\ ret' = head[q]
  BY <1>1, <1>2 DEF queue_dequeue, FrontOut
<1> QED BY <1>1, <1>2, <1>3

LEMMA RemoveFront ==
  ASSUME NEW q \in Queues, NEW i \in Items, Inv, ~halted, content[q] # <<>>,
         RemoveOnly(q, i) \/ RemoveHead(q, i)
  PROVE  /\ FrontOut(q) /\ ret' \in Items \cup {Null}
         /\ ret' = IF Len(content[q]) = 1 THEN Null ELSE content[q][2]
<1> DEFINE c == content[q]
<1>1. TypeOK /\ Represents(q) /\ OnOneQueue /\ next \in [Items -> Items \cup {Null}]
  BY DEF Inv, TypeOK
<1>2. /\ c \in Seq(Items) /\ Len(c) \in Nat /\ Len(c) >= 1
      /\ head[q] = c[1] /\ tail[q] = c[Len(c)] /\ i = c[1]
  BY <1>1, Ends DEF RemoveOnly, RemoveHead
<1>3. 1 \in 1..Len(c) /\ Len(c) \in 1..Len(c) /\ 1 + 1 = 2 /\ (Len(c) # 1 => 2 \in 1..Len(c))
  <2>1. \A x \in Nat : x >= 1 => 1 \in 1..x /\ x \in 1..x /\ (x # 1 => 2 \in 1..x)
    OBVIOUS
  <2>2. 1 + 1 = 2
    OBVIOUS
  <2>3. Len(c) \in Nat /\ Len(c) >= 1
    BY <1>2
  <2> QED BY <2>1, <2>2, <2>3, Zenon
<1>4. next[c[1]] = IF Len(c) = 1 THEN Null ELSE c[2]
  <2>1. \A n \in 1..Len(c) : next[c[n]] = IF n = Len(c) THEN Null ELSE c[n + 1]
    BY <1>1 DEF Represents, NextRepresents
  <2>2. next[c[1]] = IF 1 = Len(c) THEN Null ELSE c[1 + 1]
    BY <2>1, <1>3
  <2> QED BY <2>2, <1>3
<1>5. ret' = next[c[1]]
  BY <1>2 DEF RemoveOnly, RemoveHead
<1>6. Len(c) # 1 => c[2] \in Items
  <2>1. \A n \in 1..Len(c) : c[n] \in Items
    BY <1>2
  <2> QED BY <2>1, <1>3
<1>7. CASE RemoveOnly(q, i)
  <2>1. Len(c) = 1
    <3>1. c[1] = c[Len(c)]
      BY <1>2, <1>7 DEF RemoveOnly
    <3> QED BY <3>1, <1>1, <1>3 DEF OnOneQueue
  <2>2. FrontOut(q)
    BY <2>1, <1>2, <1>4, <1>7 DEF RemoveOnly, FrontOut
  <2> QED BY <2>2, <1>4, <1>5, <1>6
<1>8. CASE RemoveHead(q, i)
  <2>1. Len(c) # 1
    <3>1. c[1] # c[Len(c)]
      BY <1>2, <1>8 DEF RemoveHead
    <3> QED BY <3>1
  <2>2. next[c[1]] # Null
    BY <2>1, <1>4, <1>6, NullNotItem
  <2>3. FrontOut(q)
    BY <2>2, <1>2, <1>8 DEF RemoveHead, FrontOut
  <2> QED BY <2>3, <1>4, <1>5, <1>6
<1> QED BY <1>7, <1>8

LEMMA RemoveInv ==
  ASSUME NEW q \in Queues, NEW i \in Items, Inv, queue_remove(q, i)
  PROVE  Inv'
<1>1. ~halted /\ content[q] \in Seq(Items) /\ TypeOK
  BY DEF queue_remove, Inv, TypeOK
<1>2. content[q] # <<>>
  BY <1>1 DEF queue_remove
<1>3. CASE RemoveOnly(q, i) \/ RemoveHead(q, i)
  BY <1>1, <1>2, <1>3, RemoveFront, FrontOutInv
<1>4. CASE RemoveTail(q, i)
  BY <1>1, <1>2, <1>4, TailInv
<1>5. CASE RemoveInner(q, i)
  <2>1. TypeOK'
    BY <1>1, <1>5 DEF TypeOK, RemoveInner
  <2> QED BY <2>1, <1>5 DEF Inv, RemoveInner
<1> QED BY <1>3, <1>4, <1>5 DEF queue_remove

LEMMA NextInv == Inv /\ [Next]_vars => Inv'
<1> SUFFICES ASSUME Inv, [Next]_vars PROVE Inv'
  OBVIOUS
<1>1. ASSUME NEW q \in Queues, NEW i \in Items, queue_push(q, i) PROVE Inv'
  BY <1>1, PushInv
<1>2. ASSUME NEW q \in Queues, NEW i \in Items, queue_remove(q, i) PROVE Inv'
  BY <1>2, RemoveInv
<1>3. ASSUME NEW q \in Queues, queue_dequeue(q) PROVE Inv'
  BY <1>3, DequeueFront, FrontOutInv
<1>4. CASE UNCHANGED vars
  BY <1>4 DEF vars, Inv, TypeOK, OnOneQueue, Represents, EndsRepresent,
              NextRepresents, PrevRepresents
<1> QED BY <1>1, <1>2, <1>3, <1>4 DEF Next, Halted

\* The pointers of queue.c represent the queues, for any number of queues and
\* PCBs, as long as no item was removed from the middle of one.
THEOREM Representation == Spec => []QueuesRepresent
<1>1. Inv => QueuesRepresent
  BY DEF Inv, QueuesRepresent, Represents
<1> QED BY InitInv, NextInv, <1>1, PTL DEF Spec

\* Every pointer is a PCB or null, and the recorded content is well typed.
THEOREM QueueTypes == Spec => []TypeOK
<1>1. Inv => TypeOK
  BY DEF Inv
<1> QED BY InitInv, NextInv, <1>1, PTL DEF Spec

\* queue.c implements the abstract queues: every call changes the queue and
\* returns the result that FIFO prescribes.
THEOREM Refinement == Spec => ImplementsFIFO
<1>1. Init => Abstract!Init
  BY DEF Init, Abstract!Init
<1>2. Inv /\ [Next]_vars => [Abstract!Next]_<<content, ret, halted>>
  <2> SUFFICES ASSUME Inv, Next PROVE Abstract!Next \/ UNCHANGED <<content, ret, halted>>
    BY DEF vars
  <2>1. ASSUME NEW q \in Queues, NEW i \in Items, queue_push(q, i)
        PROVE  Abstract!Push(q, i)
    BY <2>1 DEF queue_push, Abstract!Push, Linked, Abstract!Linked
  <2>2. ASSUME NEW q \in Queues, queue_dequeue(q)
        PROVE  Abstract!Dequeue(q)
    BY <2>2, DequeueFront DEF queue_dequeue, Abstract!Dequeue
  <2>3. ASSUME NEW q \in Queues, NEW i \in Items, queue_remove(q, i)
        PROVE  Abstract!RemoveFirst(q) \/ Abstract!RemoveLast(q) \/ Abstract!RemoveInner(q)
    <3> DEFINE c == content[q]
    <3>1. /\ ~halted /\ c \in Seq(Items) /\ TypeOK /\ OnOneQueue /\ Represents(q)
          /\ c # <<>>
      <4>1. ~halted /\ TypeOK
        BY <2>3 DEF queue_remove, Inv
      <4>2. c \in Seq(Items)
        BY <4>1 DEF TypeOK
      <4> QED BY <2>3, <4>1, <4>2 DEF queue_remove, Inv
    <3>2. /\ Len(c) \in Nat /\ Len(c) >= 1
          /\ head[q] = c[1] /\ tail[q] = c[Len(c)]
      BY <3>1, Ends
    <3>3. CASE RemoveOnly(q, i) \/ RemoveHead(q, i)
      BY <3>1, <3>3, RemoveFront DEF FrontOut, Abstract!RemoveFirst
    <3>4. CASE RemoveTail(q, i)
      <4>1. i = c[Len(c)] /\ c[1] # c[Len(c)]
        BY <3>2, <3>4 DEF RemoveTail
      <4>2. Len(c) > 1 /\ Len(c) \in 1..Len(c)
        <5>1. \A x \in Nat : x >= 1 /\ x # 1 => x > 1 /\ x \in 1..x
          OBVIOUS
        <5>2. Len(c) # 1
          BY <4>1
        <5> QED BY <5>1, <5>2, <3>2, Zenon
      <4>3. next[i] = Null
        BY <3>1, <4>1, <4>2 DEF Represents, NextRepresents
      <4> QED BY <3>1, <3>4, <4>2, <4>3 DEF RemoveTail, Abstract!RemoveLast
    <3>5. CASE RemoveInner(q, i)
      <4>1. PICK n \in 1..Len(c) : c[n] = i
        BY <2>3 DEF queue_remove
      <4>2. n # 1 /\ n # Len(c)
        BY <4>1, <3>2, <3>5 DEF RemoveInner
      <4>3. Len(c) > 2
        BY <4>2, <3>2
      <4> QED BY <3>1, <3>5, <4>3 DEF RemoveInner, Abstract!RemoveInner
    <3> QED BY <2>3, <3>3, <3>4, <3>5 DEF queue_remove
  <2>4. Halted => UNCHANGED <<content, ret, halted>>
    BY DEF Halted, vars
  <2> QED BY <2>1, <2>2, <2>3, <2>4 DEF Next, Abstract!Next
<1> QED BY InitInv, NextInv, <1>1, <1>2, PTL DEF Spec, ImplementsFIFO, Abstract!Spec
=============================================================================
