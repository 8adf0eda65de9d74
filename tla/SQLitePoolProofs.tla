-------------------------- MODULE SQLitePoolProofs --------------------------
(***************************************************************************)
(* The pool of SQLite contexts, for any number of requests, probes and     *)
(* contexts: every context is in one pair of hands, every connection has   *)
(* someone who closes it, and no waiter sleeps through what it waits for.  *)
(*                                                                         *)
(* The invariant says where a name may be: what a thread builds is nowhere *)
(* else, what is in the pool is open and healthy and is not to be closed,  *)
(* and what was left to a probe is still with that probe.                  *)
(***************************************************************************)
EXTENDS SQLitePool, TLAPS

Distinct(s) == \A i, j \in DOMAIN s : s[i] = s[j] => i = j

\* What a thread has in its hands follows from where it is.
HandsOf(c) ==
    /\ made[c] # None <=> pc[c] \in {"build", "publish", "discard"}
    /\ pc[c] \in {"run", "reclaim", "retire", "dispose"} => held[c] # None
    /\ pc[c] \in {"idle", "acquire", "wait"} => held[c] = None
    /\ pc[c] \in {"build", "publish", "discard", "replenish"} =>
         (held[c] # None <=> back[c] = "run")
    /\ pc[c] \in {"dispose", "replenish"} => back[c] \in {"run", "idle"}
    /\ pc[c] \in {"dispose", "build", "publish", "discard", "replenish"} => held[c] \notin contexts

\* A context under construction is known to the thread that builds it alone.
BuiltApart(c) ==
    made[c] # None =>
        /\ made[c] \notin contexts \cup calls \cup deferred \cup closing
        /\ \A d \in Callers : held[d] # made[c]
        /\ \A d \in Callers : made[d] = made[c] => d = c
        /\ pc[c] = "build" => made[c] \notin open
        /\ pc[c] = "publish" => made[c] \in healthy
        /\ pc[c] \in {"publish", "discard"} => made[c] \in open

\* What is in the pool.
PoolIsSound ==
    /\ Distinct(available) /\ Inside(available) \subseteq contexts
    /\ contexts \subseteq open /\ contexts \subseteq healthy
    /\ contexts \cap (closing \cup deferred) = {}
    /\ closed => contexts = {}
    /\ deferred \subseteq calls /\ calls \cap closing = {}

\* A context is in one pair of hands.
Apart ==
    /\ \A c \in Callers : held[c] # None =>
         /\ held[c] \notin Inside(available)
         /\ \A d \in Callers : held[d] = held[c] => d = c
         /\ \A p \in Probers : probe[p] # held[c]
    /\ \A p \in Probers : probe[p] # None =>
         /\ probe[p] \notin Inside(available)
         /\ \A q \in Probers : probe[q] = probe[p] => q = p

\* None is lost.
Kept ==
    \A g \in contexts :
        g \in Inside(available) \/ (\E c \in Callers : held[c] = g) \/ (\E p \in Probers : probe[p] = g)

\* What a probe has borrowed is open, and known to be borrowed.
Borrowed ==
    /\ \A p \in Probers : probe[p] # None => probe[p] \in calls /\ probe[p] \in open
    /\ \A g \in calls : \E p \in Probers : probe[p] = g

\* Someone closes what is open.
Owned ==
    \A g \in open :
        \/ g \in contexts \/ g \in closing \/ g \in deferred
        \/ \E c \in Callers : made[c] = g \/ (held[c] = g /\ pc[c] = "dispose")

IInv ==
    /\ TypeOK /\ PoolIsSound /\ Apart /\ Kept /\ Borrowed /\ Owned
    /\ \A c \in Callers : HandsOf(c) /\ BuiltApart(c)

-----------------------------------------------------------------------------
(***************************************************************************)
(* The two queues.                                                         *)
(***************************************************************************)
LEMMA NoneIsNoContext == None \notin Contexts
  BY DEF None, Contexts

LEMMA AppendFacts ==
    ASSUME NEW S, NEW s \in Seq(S), NEW x \in S
    PROVE  /\ Append(s, x) \in Seq(S)
           /\ Inside(Append(s, x)) = Inside(s) \cup {x}
           /\ Distinct(s) /\ x \notin Inside(s) => Distinct(Append(s, x))
  <1>1. /\ Append(s, x) \in Seq(S) /\ Len(s) \in Nat /\ DOMAIN s = 1..Len(s)
        /\ DOMAIN Append(s, x) = 1..(Len(s) + 1)
        /\ \A i \in 1..Len(s) : Append(s, x)[i] = s[i]
        /\ Append(s, x)[Len(s) + 1] = x
    OBVIOUS
  <1>2. Inside(Append(s, x)) = Inside(s) \cup {x}
    <2>1. Inside(Append(s, x)) \subseteq Inside(s) \cup {x}
      BY <1>1 DEF Inside
    <2>2. Inside(s) \subseteq Inside(Append(s, x)) /\ x \in Inside(Append(s, x))
      BY <1>1 DEF Inside
    <2> QED  BY <2>1, <2>2
  <1>3. Distinct(s) /\ x \notin Inside(s) => Distinct(Append(s, x))
    BY <1>1 DEF Inside, Distinct
  <1> QED  BY <1>1, <1>2, <1>3

LEMMA TailFacts ==
    ASSUME NEW S, NEW s \in Seq(S), s # <<>>
    PROVE  /\ Head(s) \in S /\ Head(s) \in Inside(s) /\ Tail(s) \in Seq(S)
           /\ Inside(Tail(s)) \subseteq Inside(s)
           /\ Inside(s) \subseteq Inside(Tail(s)) \cup {Head(s)}
           /\ Distinct(s) => Distinct(Tail(s)) /\ Head(s) \notin Inside(Tail(s))
  <1>1. Len(s) \in Nat \ {0} /\ Len(Tail(s)) = Len(s) - 1 /\ DOMAIN s = 1..Len(s)
        /\ DOMAIN Tail(s) = 1..(Len(s) - 1) /\ Head(s) = s[1] /\ Tail(s) \in Seq(S)
    OBVIOUS
  <1>2. \A i \in DOMAIN Tail(s) : Tail(s)[i] = s[i + 1] /\ i + 1 \in DOMAIN s
    BY <1>1
  <1>3. Head(s) \in S /\ Head(s) \in Inside(s) /\ Inside(Tail(s)) \subseteq Inside(s)
    BY <1>1, <1>2 DEF Inside
  <1>4. Inside(s) \subseteq Inside(Tail(s)) \cup {Head(s)}
    <2> SUFFICES ASSUME NEW i \in DOMAIN s, i # 1  PROVE s[i] \in Inside(Tail(s))
      BY <1>1 DEF Inside
    <2>1. i - 1 \in DOMAIN Tail(s) /\ Tail(s)[i - 1] = s[i]
      BY <1>1, <1>2
    <2> QED  BY <2>1 DEF Inside
  <1>5. ASSUME Distinct(s)  PROVE Distinct(Tail(s)) /\ Head(s) \notin Inside(Tail(s))
    <2>1. Distinct(Tail(s))
      BY <1>1, <1>2, <1>5 DEF Distinct
    <2>2. Head(s) \notin Inside(Tail(s))
      BY <1>1, <1>2, <1>5 DEF Distinct, Inside
    <2> QED  BY <2>1, <2>2
  <1> QED  BY <1>1, <1>3, <1>4, <1>5

LEMMA WithoutFacts ==
    ASSUME NEW S, NEW s \in Seq(S), NEW x
    PROVE  /\ Without(s, x) \in Seq(S)
           /\ Inside(Without(s, x)) \subseteq Inside(s)
           /\ Inside(s) \ {x} \subseteq Inside(Without(s, x))
           /\ Distinct(s) => Distinct(Without(s, x)) /\ x \notin Inside(Without(s, x))
  <1>1. CASE x \notin Inside(s)
    BY <1>1 DEF Without
  <1>2. CASE x \in Inside(s)
    <2> DEFINE i == CHOOSE j \in DOMAIN s : s[j] = x
               t == [k \in 1..(Len(s) - 1) |-> IF k < i THEN s[k] ELSE s[k + 1]]
    <2>1. i \in DOMAIN s /\ s[i] = x
      BY <1>2 DEF Inside
    <2>2. Without(s, x) = t
      BY <1>2 DEF Without
    <2> HIDE DEF i
    <2>3. Len(s) \in Nat /\ DOMAIN s = 1..Len(s) /\ i \in 1..Len(s) /\ DOMAIN t = 1..(Len(s) - 1)
      BY <2>1
    <2>4. \A k \in DOMAIN t : /\ k < i => k \in DOMAIN s /\ t[k] = s[k]
                              /\ k >= i => k + 1 \in DOMAIN s /\ t[k] = s[k + 1]
      BY <2>3
    <2>5. t \in Seq(S)
      BY <2>3, <2>4
    <2>6. Inside(t) \subseteq Inside(s)
      BY <2>3, <2>4 DEF Inside
    <2>7. Inside(s) \ {x} \subseteq Inside(t)
      <3> SUFFICES ASSUME NEW k \in DOMAIN s, k # i  PROVE s[k] \in Inside(t)
        BY <2>1 DEF Inside
      <3>1. CASE k < i
        <4>1. k \in DOMAIN t /\ t[k] = s[k]
          BY <2>3, <3>1
        <4> QED  BY <4>1 DEF Inside
      <3>2. CASE k > i
        <4>1. k - 1 \in DOMAIN t /\ t[k - 1] = s[k]
          BY <2>3, <3>2
        <4> QED  BY <4>1 DEF Inside
      <3> QED  BY <2>3, <3>1, <3>2
    <2>8. ASSUME Distinct(s)  PROVE Distinct(t) /\ x \notin Inside(t)
      <3>1. ASSUME NEW k \in DOMAIN t  PROVE t[k] # x
        BY <2>1, <2>3, <2>4, <2>8 DEF Distinct
      <3>2. ASSUME NEW k \in DOMAIN t, NEW l \in DOMAIN t, t[k] = t[l]  PROVE k = l
        BY <2>3, <2>4, <2>8, <3>2 DEF Distinct
      <3> QED  BY <3>1, <3>2 DEF Distinct, Inside
    <2> QED  BY <2>2, <2>5, <2>6, <2>7, <2>8
  <1> QED  BY <1>1, <1>2

-----------------------------------------------------------------------------
(***************************************************************************)
(* What the common pieces of the actions do.                               *)
(***************************************************************************)
\* A context that comes back to the pool, or comes into it, joins the free ones.
LEMMA ReleaseFacts ==
    ASSUME TypeOK, PoolIsSound, NEW g \in Contexts, g \notin Inside(available), ~closed,
           available' = IF closed THEN available ELSE Append(available, g)
    PROVE  /\ available' \in Seq(Contexts) /\ Distinct(available')
           /\ Inside(available') = Inside(available) \cup {g}
  BY AppendFacts DEF TypeOK, PoolIsSound

\* The oldest free context is taken.
LEMMA TakeFacts ==
    ASSUME TypeOK, PoolIsSound, available # <<>>, available' = Tail(available)
    PROVE  /\ Head(available) \in Contexts /\ Head(available) \in Inside(available)
           /\ available' \in Seq(Contexts) /\ Distinct(available')
           /\ Inside(available') = Inside(available) \ {Head(available)}
  <1>1. /\ Head(available) \in Contexts /\ Head(available) \in Inside(available)
        /\ Tail(available) \in Seq(Contexts)
        /\ Inside(Tail(available)) \subseteq Inside(available)
        /\ Inside(available) \subseteq Inside(Tail(available)) \cup {Head(available)}
        /\ Distinct(Tail(available)) /\ Head(available) \notin Inside(Tail(available))
    BY TailFacts DEF TypeOK, PoolIsSound
  <1> QED  BY <1>1

LEMMA RemoveFacts ==
    ASSUME TypeOK, PoolIsSound, NEW g, available' = Without(available, g)
    PROVE  /\ available' \in Seq(Contexts) /\ Distinct(available')
           /\ Inside(available') = Inside(available) \ {g}
  <1>1. /\ Without(available, g) \in Seq(Contexts)
        /\ Inside(Without(available, g)) \subseteq Inside(available)
        /\ Inside(available) \ {g} \subseteq Inside(Without(available, g))
        /\ Distinct(Without(available, g)) /\ g \notin Inside(Without(available, g))
    BY WithoutFacts DEF TypeOK, PoolIsSound
  <1> QED  BY <1>1

\* A build that begins takes a name nobody knows.
LEMMA ReplenishFacts ==
    ASSUME TypeOK, NEW c \in Callers, NEW next \in {"acquire", "run", "idle"},
           _replenish_once(c, next)
    PROVE  \/ /\ pc' = [pc EXCEPT ![c] = next] /\ UNCHANGED <<building, back, made>>
           \/ \E g \in Contexts :
                /\ g \notin contexts \cup open \cup calls \cup deferred \cup closing
                /\ \A d \in Callers : held[d] # g /\ made[d] # g
                /\ \A p \in Probers : probe[p] # g
                /\ building' = TRUE /\ made' = [made EXCEPT ![c] = g]
                /\ back' = [back EXCEPT ![c] = next]
                /\ pc' = [pc EXCEPT ![c] = "build"]
  <1>1. CASE closed \/ building \/ Cardinality(contexts) >= TargetSize
    BY <1>1 DEF _replenish_once
  <1>2. CASE ~(closed \/ building \/ Cardinality(contexts) >= TargetSize)
    <2> DEFINE g == CHOOSE g \in Contexts \ InUse : TRUE
    <2>1. g \in Contexts \ InUse
      BY <1>2 DEF _replenish_once
    <2>2. /\ building' = TRUE /\ made' = [made EXCEPT ![c] = g]
          /\ back' = [back EXCEPT ![c] = next] /\ pc' = [pc EXCEPT ![c] = "build"]
      BY <1>2 DEF _replenish_once
    <2> HIDE DEF g
    <2> QED  BY <2>1, <2>2 DEF InUse
  <1> QED  BY <1>1, <1>2

\* One turn in the admission queue: served, sent away, or asleep.
LEMMA TurnFacts ==
    ASSUME TypeOK, PoolIsSound, NEW c \in Callers, NEW line \in Seq(Callers),
           NEW sleepers \in SUBSET Callers, NEW expired, Turn(c, line, sleepers, expired)
    PROVE  /\ waiters' \in Seq(Callers) /\ stale' \subseteq Callers /\ asleep' \subseteq Callers
           /\ \/ /\ available # <<>> /\ available' = Tail(available)
                 /\ held' = [held EXCEPT ![c] = Head(available)]
                 /\ pc' = [pc EXCEPT ![c] = "run"]
              \/ /\ UNCHANGED <<held, available>>
                 /\ \E s \in {"idle", "wait"} : pc' = [pc EXCEPT ![c] = s]
  <1>1. waiters' \in Seq(Callers)
    BY WithoutFacts DEF Turn, Leave
  <1>2. stale' \subseteq Callers /\ asleep' \subseteq Callers
    BY DEF Turn, Leave, TypeOK
  <1>3. \/ /\ available # <<>> /\ available' = Tail(available)
           /\ held' = [held EXCEPT ![c] = Head(available)]
           /\ pc' = [pc EXCEPT ![c] = "run"]
        \/ /\ UNCHANGED <<held, available>>
           /\ \E s \in {"idle", "wait"} : pc' = [pc EXCEPT ![c] = s]
    BY DEF Turn, Served
  <1> QED  BY <1>1, <1>2, <1>3

LEMMA InsideTyped ==
    ASSUME TypeOK
    PROVE  Inside(waiters) \subseteq Callers
  <1>1. waiters \in Seq(Callers)
    BY DEF TypeOK
  <1> QED  BY <1>1 DEF Inside

-----------------------------------------------------------------------------
(***************************************************************************)
(* Every step keeps the invariant.                                         *)
(***************************************************************************)
LEMMA ReplenishStep ==
    ASSUME IInv, NEW c \in Callers, Enter(c) \/ Replenish(c)
    PROVE  IInv'
  <1>1. TypeOK /\ HandsOf(c) /\ made[c] = None
    BY DEF IInv, HandsOf, Enter, Replenish
  <1>2. UNCHANGED <<contexts, healthy, available, open, admission, held, probes>>
    BY DEF Enter, Replenish
  <1>3. PICK next \in {"acquire", "run", "idle"} :
            /\ _replenish_once(c, next) /\ (held[c] # None <=> next = "run")
            /\ pc[c] \in {"idle", "replenish"} /\ held[c] \notin contexts
    BY <1>1, NoneIsNoContext DEF Enter, Replenish, HandsOf, TypeOK
  <1>4. CASE pc' = [pc EXCEPT ![c] = next] /\ UNCHANGED <<building, back, made>>
    <2>1. TypeOK'
      BY <1>1, <1>2, <1>4 DEF TypeOK, Stages, admission, queue, probes
    <2>2. PoolIsSound' /\ Apart' /\ Kept' /\ Borrowed'
      BY <1>2 DEF IInv, PoolIsSound, Apart, Kept, Borrowed, admission, probes
    <2>3. Owned'
      BY <1>1, <1>2, <1>3, <1>4 DEF IInv, Owned, probes, TypeOK
    <2>4. ASSUME NEW d \in Callers  PROVE HandsOf(d)' /\ BuiltApart(d)'
      BY <1>1, <1>2, <1>3, <1>4 DEF IInv, HandsOf, BuiltApart, probes, TypeOK
    <2> QED  BY <2>1, <2>2, <2>3, <2>4 DEF IInv
  <1>5. ASSUME NEW g \in Contexts,
               /\ g \notin contexts \cup open \cup calls \cup deferred \cup closing
               /\ \A d \in Callers : held[d] # g /\ made[d] # g
               /\ \A p \in Probers : probe[p] # g
               /\ building' = TRUE /\ made' = [made EXCEPT ![c] = g]
               /\ back' = [back EXCEPT ![c] = next]
               /\ pc' = [pc EXCEPT ![c] = "build"]
        PROVE  IInv'
    <2>1. TypeOK'
      BY <1>1, <1>2, <1>5 DEF TypeOK, Stages, admission, queue, probes
    <2>2. PoolIsSound' /\ Apart' /\ Kept' /\ Borrowed'
      BY <1>2 DEF IInv, PoolIsSound, Apart, Kept, Borrowed, admission, probes
    <2>3. Owned'
      <3> SUFFICES ASSUME NEW o \in open
                   PROVE  \/ o \in contexts \/ o \in closing \/ o \in deferred
                          \/ \E d \in Callers : made'[d] = o \/ (held[d] = o /\ pc'[d] = "dispose")
        BY <1>2 DEF Owned, probes
      <3>1. ASSUME NEW d \in Callers, made[d] = o  PROVE made'[d] = o
        BY <1>1, <1>5, <3>1, NoneIsNoContext DEF TypeOK
      <3>2. ASSUME NEW d \in Callers, held[d] = o, pc[d] = "dispose"  PROVE pc'[d] = "dispose"
        BY <1>1, <1>3, <1>5, <3>2 DEF TypeOK
      <3> QED  BY <3>1, <3>2 DEF IInv, Owned
    <2>4. ASSUME NEW d \in Callers  PROVE HandsOf(d)'
      BY <1>1, <1>2, <1>3, <1>5, NoneIsNoContext DEF IInv, HandsOf, TypeOK
    <2>5. ASSUME NEW d \in Callers  PROVE BuiltApart(d)'
      BY <1>1, <1>2, <1>3, <1>5, NoneIsNoContext DEF IInv, BuiltApart, probes, TypeOK
    <2> QED  BY <2>1, <2>2, <2>3, <2>4, <2>5 DEF IInv
  <1>6. \/ pc' = [pc EXCEPT ![c] = next] /\ UNCHANGED <<building, back, made>>
        \/ \E g \in Contexts :
             /\ g \notin contexts \cup open \cup calls \cup deferred \cup closing
             /\ \A d \in Callers : held[d] # g /\ made[d] # g
             /\ \A p \in Probers : probe[p] # g
             /\ building' = TRUE /\ made' = [made EXCEPT ![c] = g]
             /\ back' = [back EXCEPT ![c] = next]
             /\ pc' = [pc EXCEPT ![c] = "build"]
    BY <1>1, <1>3, ReplenishFacts
  <1> QED  BY <1>4, <1>5, <1>6

LEMMA BuildStep ==
    ASSUME IInv, NEW c \in Callers, BuildSucceeds(c) \/ BuildFails(c)
    PROVE  IInv'
  <1>1. TypeOK /\ HandsOf(c) /\ pc[c] = "build" /\ made[c] \in Contexts
    BY DEF IInv, HandsOf, BuildSucceeds, BuildFails, TypeOK
  <1>2. CASE BuildSucceeds(c)
    <2> USE DEF BuildSucceeds, probes
    <2>1. TypeOK'
      BY <1>1, <1>2 DEF TypeOK, Stages, admission, queue
    <2>2. PoolIsSound' /\ Apart' /\ Kept' /\ Borrowed'
      BY <1>2 DEF IInv, PoolIsSound, Apart, Kept, Borrowed, admission
    <2>3. Owned'
      BY <1>1, <1>2 DEF IInv, Owned, TypeOK
    <2>4. ASSUME NEW d \in Callers  PROVE HandsOf(d)'
      BY <1>1, <1>2 DEF IInv, HandsOf, TypeOK
    <2>5. ASSUME NEW d \in Callers  PROVE BuiltApart(d)'
      BY <1>1, <1>2 DEF IInv, BuiltApart, TypeOK
    <2> QED  BY <2>1, <2>2, <2>3, <2>4, <2>5 DEF IInv
  <1>3. CASE BuildFails(c)
    <2> USE DEF BuildFails, probes
    <2>1. TypeOK'
      BY <1>1, <1>3, InsideTyped DEF TypeOK, Stages, invalidate_waiters
    <2>2. PoolIsSound' /\ Apart' /\ Kept' /\ Borrowed'
      BY <1>3 DEF IInv, PoolIsSound, Apart, Kept, Borrowed, invalidate_waiters
    <2>3. Owned'
      <3>1. made[c] \notin open
        BY <1>1, NoneIsNoContext DEF IInv, BuiltApart
      <3> QED  BY <1>1, <1>3, <3>1 DEF IInv, Owned, TypeOK
    <2>4. ASSUME NEW d \in Callers  PROVE HandsOf(d)'
      BY <1>1, <1>3 DEF IInv, HandsOf, TypeOK
    <2>5. ASSUME NEW d \in Callers  PROVE BuiltApart(d)'
      BY <1>1, <1>3 DEF IInv, BuiltApart, TypeOK
    <2> QED  BY <2>1, <2>2, <2>3, <2>4, <2>5 DEF IInv
  <1> QED  BY <1>2, <1>3

LEMMA PublishStep ==
    ASSUME IInv, NEW c \in Callers, Publish(c)
    PROVE  IInv'
  <1>1. /\ TypeOK /\ PoolIsSound /\ HandsOf(c) /\ BuiltApart(c) /\ pc[c] = "publish"
        /\ made[c] \in Contexts /\ made[c] # None
    BY DEF IInv, HandsOf, Publish, TypeOK
  <1>2. /\ UNCHANGED <<open, back, held, probes>> /\ building' = FALSE
    BY DEF Publish
  <1>3. CASE ~closed /\ Cardinality(contexts) < TargetSize
    <2>1. /\ contexts' = contexts \cup {made[c]} /\ publish(made[c])
          /\ made' = [made EXCEPT ![c] = None] /\ pc' = [pc EXCEPT ![c] = back[c]]
          /\ UNCHANGED healthy
      BY <1>3 DEF Publish
    <2>2. made[c] \notin contexts /\ made[c] \notin Inside(available)
      BY <1>1 DEF BuiltApart, PoolIsSound
    <2>3. /\ available' \in Seq(Contexts) /\ Distinct(available')
          /\ Inside(available') = Inside(available) \cup {made[c]}
      BY <1>1, <1>3, <2>1, <2>2, ReleaseFacts DEF publish
    <2>4. \A p \in Probers : probe[p] # made[c]
      BY <1>1 DEF IInv, Borrowed, BuiltApart
    <2>5. TypeOK'
      BY <1>1, <1>2, <2>1, <2>3 DEF TypeOK, Stages, publish, probes
    <2>6. PoolIsSound'
      BY <1>1, <1>2, <1>3, <2>1, <2>3 DEF PoolIsSound, BuiltApart, publish, probes
    <2>7. Apart'
      BY <1>1, <1>2, <2>3, <2>4 DEF IInv, Apart, BuiltApart, probes
    <2>8. Kept' /\ Borrowed'
      BY <1>1, <1>2, <2>1, <2>3 DEF IInv, Kept, Borrowed, probes
    <2>9. Owned'
      BY <1>1, <1>2, <2>1 DEF IInv, Owned, probes, TypeOK
    <2>10. ASSUME NEW d \in Callers  PROVE HandsOf(d)'
      BY <1>1, <1>2, <2>1 DEF IInv, HandsOf, BuiltApart, TypeOK
    <2>11. ASSUME NEW d \in Callers  PROVE BuiltApart(d)'
      BY <1>1, <1>2, <2>1 DEF IInv, BuiltApart, probes, TypeOK
    <2> QED  BY <2>5, <2>6, <2>7, <2>8, <2>9, <2>10, <2>11 DEF IInv
  <1>4. CASE ~(~closed /\ Cardinality(contexts) < TargetSize)
    <2>1. /\ healthy' = healthy \ {made[c]} /\ pc' = [pc EXCEPT ![c] = "discard"]
          /\ UNCHANGED <<contexts, available, admission, made>>
      BY <1>4 DEF Publish
    <2>2. TypeOK'
      BY <1>1, <1>2, <2>1 DEF TypeOK, Stages, admission, queue, probes
    <2>3. PoolIsSound'
      BY <1>1, <1>2, <2>1 DEF PoolIsSound, BuiltApart, admission, probes
    <2>4. Apart' /\ Kept' /\ Borrowed'
      BY <1>2, <2>1 DEF IInv, Apart, Kept, Borrowed, probes
    <2>5. Owned'
      BY <1>1, <1>2, <2>1 DEF IInv, Owned, probes, TypeOK
    <2>6. ASSUME NEW d \in Callers  PROVE HandsOf(d)'
      BY <1>1, <1>2, <2>1 DEF IInv, HandsOf, TypeOK
    <2>7. ASSUME NEW d \in Callers  PROVE BuiltApart(d)'
      BY <1>1, <1>2, <2>1 DEF IInv, BuiltApart, probes, TypeOK
    <2> QED  BY <2>2, <2>3, <2>4, <2>5, <2>6, <2>7 DEF IInv
  <1> QED  BY <1>3, <1>4

LEMMA DiscardStep ==
    ASSUME IInv, NEW c \in Callers, Discard(c)
    PROVE  IInv'
  <1> USE DEF Discard, probes
  <1>1. /\ TypeOK /\ HandsOf(c) /\ BuiltApart(c) /\ pc[c] = "discard"
        /\ made[c] \in Contexts /\ made[c] # None
    BY DEF IInv, HandsOf, TypeOK
  <1>2. \A p \in Probers : probe[p] # made[c]
    BY <1>1 DEF IInv, Borrowed, BuiltApart
  <1>3. TypeOK'
    BY <1>1 DEF TypeOK, Stages, admission, queue
  <1>4. PoolIsSound'
    BY <1>1 DEF IInv, PoolIsSound, BuiltApart, admission
  <1>5. Apart' /\ Kept' /\ Borrowed'
    BY <1>2 DEF IInv, Apart, Kept, Borrowed
  <1>6. Owned'
    BY <1>1 DEF IInv, Owned, TypeOK
  <1>7. ASSUME NEW d \in Callers  PROVE HandsOf(d)'
    BY <1>1 DEF IInv, HandsOf, TypeOK
  <1>8. ASSUME NEW d \in Callers  PROVE BuiltApart(d)'
    BY <1>1 DEF IInv, BuiltApart, TypeOK
  <1> QED  BY <1>3, <1>4, <1>5, <1>6, <1>7, <1>8 DEF IInv

\* Joining the queue, or waking up in it.
LEMMA AdmissionStep ==
    ASSUME IInv, NEW c \in Callers, Acquire(c) \/ Wake(c)
    PROVE  IInv'
  <1>1. /\ TypeOK /\ PoolIsSound /\ HandsOf(c) /\ pc[c] \in {"acquire", "wait"}
        /\ held[c] = None /\ made[c] = None
    BY DEF IInv, HandsOf, Acquire, Wake
  <1>2. UNCHANGED <<contexts, healthy, open, accepting, closed, building, back, made, probes>>
    BY DEF Acquire, Wake
  <1>3. /\ waiters' \in Seq(Callers) /\ stale' \subseteq Callers /\ asleep' \subseteq Callers
        /\ \/ /\ available # <<>> /\ available' = Tail(available)
              /\ held' = [held EXCEPT ![c] = Head(available)]
              /\ pc' = [pc EXCEPT ![c] = "run"]
           \/ /\ UNCHANGED <<held, available>>
              /\ \E s \in {"idle", "wait"} : pc' = [pc EXCEPT ![c] = s]
    <2>1. Append(waiters, c) \in Seq(Callers) /\ waiters \in Seq(Callers) /\ asleep \in SUBSET Callers
      BY <1>1, AppendFacts DEF TypeOK
    <2>2. PICK line \in Seq(Callers), sleepers \in SUBSET Callers, expired \in BOOLEAN :
              Turn(c, line, sleepers, expired)
      BY <2>1 DEF Acquire, Wake
    <2> QED  BY <1>1, <2>2, TurnFacts
  <1>4. CASE /\ available # <<>> /\ available' = Tail(available)
             /\ held' = [held EXCEPT ![c] = Head(available)]
             /\ pc' = [pc EXCEPT ![c] = "run"]
    <2> DEFINE g == Head(available)
    <2>1. /\ g \in Contexts /\ g \in Inside(available)
          /\ available' \in Seq(Contexts) /\ Distinct(available')
          /\ Inside(available') = Inside(available) \ {g}
      BY <1>1, <1>4, TakeFacts
    <2>2. held' = [held EXCEPT ![c] = g]
      BY <1>4
    <2> HIDE DEF g
    <2>3. g \in contexts
      BY <1>1, <2>1 DEF PoolIsSound
    <2>4. TypeOK'
      BY <1>1, <1>2, <1>3, <1>4, <2>1, <2>2 DEF TypeOK, Stages, probes
    <2>5. PoolIsSound'
      BY <1>1, <1>2, <2>1 DEF PoolIsSound, probes
    <2>6. Apart'
      BY <1>1, <1>2, <2>1, <2>2 DEF IInv, Apart, probes, TypeOK
    <2>7. Kept' /\ Borrowed'
      BY <1>1, <1>2, <2>1, <2>2, NoneIsNoContext DEF IInv, Kept, Borrowed, probes, TypeOK
    <2>8. Owned'
      BY <1>1, <1>2, <1>4, <2>2 DEF IInv, Owned, probes, TypeOK
    <2>9. ASSUME NEW d \in Callers  PROVE HandsOf(d)'
      BY <1>1, <1>2, <1>4, <2>1, <2>2, NoneIsNoContext DEF IInv, HandsOf, TypeOK
    <2>10. ASSUME NEW d \in Callers  PROVE BuiltApart(d)'
      BY <1>1, <1>2, <1>4, <2>2, <2>3 DEF IInv, BuiltApart, probes, TypeOK
    <2> QED  BY <2>4, <2>5, <2>6, <2>7, <2>8, <2>9, <2>10 DEF IInv
  <1>5. ASSUME NEW s \in {"idle", "wait"}, UNCHANGED <<held, available>>, pc' = [pc EXCEPT ![c] = s]
        PROVE  IInv'
    <2>1. TypeOK'
      BY <1>1, <1>2, <1>3, <1>5 DEF TypeOK, Stages, probes
    <2>2. PoolIsSound' /\ Apart' /\ Kept' /\ Borrowed'
      BY <1>2, <1>5 DEF IInv, PoolIsSound, Apart, Kept, Borrowed, probes
    <2>3. Owned'
      BY <1>1, <1>2, <1>5 DEF IInv, Owned, probes, TypeOK
    <2>4. ASSUME NEW d \in Callers  PROVE HandsOf(d)' /\ BuiltApart(d)'
      BY <1>1, <1>2, <1>5 DEF IInv, HandsOf, BuiltApart, probes, TypeOK
    <2> QED  BY <2>1, <2>2, <2>3, <2>4 DEF IInv
  <1> QED  BY <1>3, <1>4, <1>5

\* A context leaves the pool: quarantined, or retired at the end of its request.
LEMMA RemoveStep ==
    ASSUME IInv, NEW c \in Callers, NEW next \in {"run", "idle"}, pc[c] \in {"run", "retire"},
           Remove(c), back' = [back EXCEPT ![c] = next], UNCHANGED <<open, building, held, made, probes>>
    PROVE  IInv'
  <1>1. /\ TypeOK /\ PoolIsSound /\ HandsOf(c) /\ held[c] \in Contexts /\ held[c] # None
        /\ made[c] = None
    BY DEF IInv, HandsOf, TypeOK
  <1>2. /\ healthy' = healthy \ {held[c]} /\ contexts' = contexts \ {held[c]}
        /\ available' = Without(available, held[c]) /\ invalidate_waiters
        /\ pc' = [pc EXCEPT ![c] = "dispose"]
    BY DEF Remove
  <1>3. /\ available' \in Seq(Contexts) /\ Distinct(available')
        /\ Inside(available') = Inside(available) \ {held[c]}
    BY <1>1, <1>2, RemoveFacts
  <1> USE DEF probes
  <1>4. TypeOK'
    BY <1>1, <1>2, <1>3, InsideTyped DEF TypeOK, Stages, invalidate_waiters
  <1>5. PoolIsSound'
    BY <1>1, <1>2, <1>3 DEF PoolIsSound, invalidate_waiters
  <1>6. Apart' /\ Kept' /\ Borrowed'
    BY <1>1, <1>2, <1>3 DEF IInv, Apart, Kept, Borrowed
  <1>7. Owned'
    BY <1>1, <1>2 DEF IInv, Owned, TypeOK
  <1>8. ASSUME NEW d \in Callers  PROVE HandsOf(d)'
    BY <1>1, <1>2 DEF IInv, HandsOf, TypeOK
  <1>9. ASSUME NEW d \in Callers  PROVE BuiltApart(d)'
    BY <1>1, <1>2 DEF IInv, BuiltApart, TypeOK
  <1> QED  BY <1>4, <1>5, <1>6, <1>7, <1>8, <1>9 DEF IInv

\* The request lets go of its context, which returns to the pool if it may.
LEMMA EndStep ==
    ASSUME IInv, NEW c \in Callers, _reclaim(c) \/ _retire(c)
    PROVE  IInv'
  <1>1. /\ TypeOK /\ PoolIsSound /\ HandsOf(c) /\ pc[c] \in {"reclaim", "retire"}
        /\ held[c] \in Contexts /\ held[c] # None /\ made[c] = None
    BY DEF IInv, HandsOf, TypeOK, _reclaim, _retire
  <1>2. CASE _retire(c) /\ held[c] \in healthy /\ held[c] \in contexts
    BY <1>2, <1>1, RemoveStep DEF _retire
  <1>3. CASE _reclaim(c) /\ Reusable(held[c])
    <2>1. /\ release(held[c]) /\ held' = [held EXCEPT ![c] = None]
          /\ pc' = [pc EXCEPT ![c] = "idle"]
          /\ UNCHANGED <<contexts, healthy, open, building, back, made, probes>>
      BY <1>3 DEF _reclaim
    <2>2. held[c] \notin Inside(available) /\ held[c] \in contexts /\ ~closed
      BY <1>1, <1>3 DEF IInv, Apart, Reusable
    <2>3. /\ available' \in Seq(Contexts) /\ Distinct(available')
          /\ Inside(available') = Inside(available) \cup {held[c]}
      BY <1>1, <2>1, <2>2, ReleaseFacts DEF release
    <2> USE DEF probes
    <2>4. TypeOK'
      BY <1>1, <2>1, <2>3 DEF TypeOK, Stages, release
    <2>5. PoolIsSound'
      BY <1>1, <2>1, <2>2, <2>3 DEF PoolIsSound, release
    <2>6. Apart'
      BY <1>1, <2>1, <2>3 DEF IInv, Apart, TypeOK
    <2>7. Kept' /\ Borrowed'
      BY <1>1, <2>1, <2>3 DEF IInv, Kept, Borrowed, TypeOK
    <2>8. Owned'
      BY <1>1, <2>1 DEF IInv, Owned, TypeOK
    <2>9. ASSUME NEW d \in Callers  PROVE HandsOf(d)'
      BY <1>1, <2>1 DEF IInv, HandsOf, TypeOK
    <2>10. ASSUME NEW d \in Callers  PROVE BuiltApart(d)'
      BY <1>1, <2>1 DEF IInv, BuiltApart, TypeOK
    <2> QED  BY <2>4, <2>5, <2>6, <2>7, <2>8, <2>9, <2>10 DEF IInv
  <1>4. CASE /\ _reclaim(c) => ~Reusable(held[c])
             /\ _retire(c) => held[c] \notin healthy \/ held[c] \notin contexts
    <2>1. /\ held' = [held EXCEPT ![c] = None] /\ pc' = [pc EXCEPT ![c] = "idle"]
          /\ UNCHANGED <<contexts, available, healthy, admission, open, building, back, made, probes>>
      BY <1>4 DEF _reclaim, _retire
    <2>2. held[c] \notin contexts
      BY <1>1, <1>4 DEF PoolIsSound, Reusable
    <2> USE DEF probes
    <2>3. TypeOK'
      BY <1>1, <2>1 DEF TypeOK, Stages, admission, queue
    <2>4. PoolIsSound'
      BY <1>1, <2>1 DEF PoolIsSound, admission
    <2>5. Apart'
      BY <1>1, <2>1 DEF IInv, Apart, TypeOK
    <2>6. Kept' /\ Borrowed'
      BY <1>1, <2>1, <2>2 DEF IInv, Kept, Borrowed, TypeOK
    <2>7. Owned'
      BY <1>1, <2>1 DEF IInv, Owned, TypeOK
    <2>8. ASSUME NEW d \in Callers  PROVE HandsOf(d)'
      BY <1>1, <2>1 DEF IInv, HandsOf, TypeOK
    <2>9. ASSUME NEW d \in Callers  PROVE BuiltApart(d)'
      BY <1>1, <2>1 DEF IInv, BuiltApart, TypeOK
    <2> QED  BY <2>3, <2>4, <2>5, <2>6, <2>7, <2>8, <2>9 DEF IInv
  <1> QED  BY <1>2, <1>3, <1>4

LEMMA InspectStep ==
    ASSUME IInv, NEW c \in Callers, Inspect(c)
    PROVE  IInv'
  <1> USE DEF Inspect, probes
  <1>1. TypeOK /\ HandsOf(c) /\ pc[c] = "run"
    BY DEF IInv
  <1>2. PICK s \in {"reclaim", "retire"} : pc' = [pc EXCEPT ![c] = s]
    OBVIOUS
  <1>3. TypeOK'
    BY <1>1, <1>2 DEF TypeOK, Stages, admission, queue
  <1>4. PoolIsSound' /\ Apart' /\ Kept' /\ Borrowed'
    BY DEF IInv, PoolIsSound, Apart, Kept, Borrowed, admission
  <1>5. Owned'
    BY <1>1, <1>2 DEF IInv, Owned, TypeOK
  <1>6. ASSUME NEW d \in Callers  PROVE HandsOf(d)' /\ BuiltApart(d)'
    BY <1>1, <1>2 DEF IInv, HandsOf, BuiltApart, TypeOK
  <1> QED  BY <1>3, <1>4, <1>5, <1>6 DEF IInv

LEMMA DisposeStep ==
    ASSUME IInv, NEW c \in Callers, Dispose(c)
    PROVE  IInv'
  <1> USE DEF probes
  <1>1. /\ TypeOK /\ HandsOf(c) /\ pc[c] = "dispose" /\ held[c] # None /\ held[c] \in Contexts
        /\ held[c] \notin contexts /\ made[c] = None /\ back[c] \in {"run", "idle"}
    BY DEF IInv, HandsOf, TypeOK, Dispose
  <1>2. /\ open' = open \ {held[c]} /\ pc' = [pc EXCEPT ![c] = "replenish"]
        /\ held' = [held EXCEPT ![c] = IF back[c] = "run" THEN held[c] ELSE None]
        /\ UNCHANGED <<contexts, available, healthy, admission, building, back, made, probes>>
    BY <1>1 DEF Dispose, TypeOK
  <1>3. TypeOK'
    BY <1>1, <1>2 DEF TypeOK, Stages, admission, queue
  <1>4. PoolIsSound'
    BY <1>1, <1>2 DEF IInv, PoolIsSound, admission
  <1>5. Apart'
    BY <1>1, <1>2 DEF IInv, Apart, TypeOK
  <1>6. Kept' /\ Borrowed'
    BY <1>1, <1>2 DEF IInv, Kept, Borrowed, Apart, TypeOK
  <1>7. Owned'
    BY <1>1, <1>2 DEF IInv, Owned, TypeOK
  <1>8. ASSUME NEW d \in Callers  PROVE HandsOf(d)'
    BY <1>1, <1>2, NoneIsNoContext DEF IInv, HandsOf, TypeOK
  <1>9. ASSUME NEW d \in Callers  PROVE BuiltApart(d)'
    BY <1>1, <1>2 DEF IInv, BuiltApart, TypeOK
  <1> QED  BY <1>3, <1>4, <1>5, <1>6, <1>7, <1>8, <1>9 DEF IInv

\* A probe borrows a free context.
LEMMA BorrowStep ==
    ASSUME IInv, NEW p \in Probers, is_ready(p)
    PROVE  IInv'
  <1> DEFINE g == Head(available)
  <1>1. TypeOK /\ PoolIsSound
    BY DEF IInv
  <1>2. /\ probe[p] = None /\ ~closed /\ available # <<>> /\ available' = Tail(available)
        /\ probe' = [probe EXCEPT ![p] = g] /\ calls' = calls \cup {g}
        /\ UNCHANGED <<contexts, healthy, open, admission, building, thread, deferred, closing>>
    BY DEF is_ready
  <1>3. /\ g \in Contexts /\ g \in Inside(available)
        /\ available' \in Seq(Contexts) /\ Distinct(available')
        /\ Inside(available') = Inside(available) \ {g}
    BY <1>1, <1>2, TakeFacts
  <1> HIDE DEF g
  <1>4. g \in contexts /\ g \in open /\ g \notin closing
    BY <1>1, <1>3 DEF PoolIsSound
  <1>5. TypeOK'
    BY <1>1, <1>2, <1>3 DEF TypeOK, admission, queue, thread
  <1>6. PoolIsSound'
    BY <1>1, <1>2, <1>3, <1>4 DEF PoolIsSound, admission
  <1>7. Apart'
    BY <1>1, <1>2, <1>3, NoneIsNoContext DEF IInv, Apart, thread, TypeOK
  <1>8. Kept' /\ Borrowed'
    <2>1. \A q \in Probers \ {p} : probe'[q] = probe[q]
      BY <1>1, <1>2 DEF TypeOK
    <2>2. probe'[p] = g
      BY <1>1, <1>2 DEF TypeOK
    <2>3. Kept'
      BY <1>1, <1>2, <1>3, <2>1, <2>2, NoneIsNoContext DEF IInv, Kept, thread, TypeOK
    <2>4. Borrowed'
      BY <1>1, <1>2, <1>4, <2>1, <2>2, NoneIsNoContext DEF IInv, Borrowed, TypeOK
    <2> QED  BY <2>3, <2>4
  <1>9. Owned'
    BY <1>2 DEF IInv, Owned, thread
  <1>10. ASSUME NEW d \in Callers  PROVE HandsOf(d)' /\ BuiltApart(d)'
    BY <1>2, <1>4 DEF IInv, HandsOf, BuiltApart, thread
  <1> QED  BY <1>5, <1>6, <1>7, <1>8, <1>9, <1>10 DEF IInv

\* It gives the context back, or leaves it to be closed after a shutdown.
LEMMA GiveBackStep ==
    ASSUME IInv, NEW p \in Probers, _release_probe_context(p)
    PROVE  IInv'
  <1> DEFINE g == probe[p]
  <1>1. TypeOK /\ PoolIsSound /\ g \in Contexts /\ g # None
    BY DEF IInv, TypeOK, _release_probe_context
  <1>2. /\ probe' = [probe EXCEPT ![p] = None] /\ calls' = calls \ {g}
        /\ deferred' = deferred \ {g}
        /\ UNCHANGED <<contexts, healthy, open, building, thread>>
    BY DEF _release_probe_context
  <1>3. /\ g \in calls /\ g \in open /\ g \notin closing /\ g \notin Inside(available)
        /\ \A q \in Probers : probe[q] = g => q = p
        /\ \A d \in Callers : held[d] # g /\ made[d] # g
    BY <1>1 DEF IInv, PoolIsSound, Borrowed, Apart, BuiltApart
  <1> HIDE DEF g
  <1>4. Borrowed'
    BY <1>1, <1>2, <1>3 DEF IInv, Borrowed, TypeOK, g
  <1>5. ASSUME NEW d \in Callers, closing' \subseteq closing \cup {g}
        PROVE  HandsOf(d)' /\ BuiltApart(d)'
    BY <1>2, <1>3, <1>5 DEF IInv, HandsOf, BuiltApart, thread
  <1>6. CASE Reusable(g)
    <2>1. release(g) /\ UNCHANGED closing
      BY <1>6 DEF _release_probe_context, g
    <2>2. ~closed /\ g \in contexts
      BY <1>6 DEF Reusable
    <2>3. /\ available' \in Seq(Contexts) /\ Distinct(available')
          /\ Inside(available') = Inside(available) \cup {g}
      BY <1>1, <1>3, <2>1, <2>2, ReleaseFacts DEF release
    <2>4. TypeOK'
      BY <1>1, <1>2, <2>1, <2>3 DEF TypeOK, release, thread
    <2>5. PoolIsSound'
      BY <1>1, <1>2, <2>1, <2>2, <2>3 DEF PoolIsSound, release
    <2>6. Apart'
      BY <1>1, <1>2, <1>3, <2>3 DEF IInv, Apart, thread, TypeOK, g
    <2>7. Kept'
      BY <1>1, <1>2, <2>3 DEF IInv, Kept, thread, TypeOK, g
    <2>8. Owned'
      BY <1>1, <1>2, <2>1, <2>2 DEF IInv, Owned, thread
    <2> QED  BY <1>4, <1>5, <2>1, <2>4, <2>5, <2>6, <2>7, <2>8 DEF IInv
  <1>7. CASE ~Reusable(g)
    <2>1. closing' = (IF g \in deferred THEN closing \cup {g} ELSE closing)
          /\ UNCHANGED <<available, admission>>
      BY <1>7 DEF _release_probe_context, g
    <2>2. g \notin contexts
      BY <1>1, <1>7 DEF PoolIsSound, Reusable
    <2>3. g \in deferred
      BY <1>3, <2>2 DEF IInv, Owned
    <2>4. TypeOK'
      BY <1>1, <1>2, <2>1 DEF TypeOK, admission, queue, thread
    <2>5. PoolIsSound'
      BY <1>1, <1>2, <2>1, <2>2 DEF PoolIsSound, admission
    <2>6. Apart'
      BY <1>1, <1>2, <2>1 DEF IInv, Apart, thread, TypeOK
    <2>7. Kept'
      BY <1>1, <1>2, <2>1, <2>2 DEF IInv, Kept, thread, TypeOK, g
    <2>8. Owned'
      BY <1>1, <1>2, <2>1, <2>3 DEF IInv, Owned, thread
    <2> QED  BY <1>4, <1>5, <2>1, <2>4, <2>5, <2>6, <2>7, <2>8 DEF IInv
  <1> QED  BY <1>6, <1>7

LEMMA CloseStep ==
    ASSUME IInv, Close \/ \E g \in Contexts : CloseConnection(g)
    PROVE  IInv'
  <1> USE DEF thread
  <1>1. TypeOK /\ PoolIsSound
    BY DEF IInv
  <1>2. CASE Close
    <2> USE DEF Close
    <2>1. Inside(<<>>) = {} /\ Distinct(<<>>) /\ <<>> \in Seq(Contexts)
      BY DEF Inside, Distinct
    <2>2. TypeOK'
      BY <1>1, <1>2, <2>1, InsideTyped DEF TypeOK
    <2>3. PoolIsSound'
      BY <1>1, <1>2, <2>1 DEF PoolIsSound
    <2>4. Apart' /\ Kept' /\ Borrowed'
      BY <1>2, <2>1 DEF IInv, Apart, Kept, Borrowed
    <2>5. Owned'
      BY <1>2 DEF IInv, Owned
    <2>6. ASSUME NEW d \in Callers  PROVE HandsOf(d)' /\ BuiltApart(d)'
      BY <1>2 DEF IInv, HandsOf, BuiltApart
    <2> QED  BY <2>2, <2>3, <2>4, <2>5, <2>6 DEF IInv
  <1>3. ASSUME NEW g \in Contexts, CloseConnection(g)  PROVE IInv'
    <2> USE DEF CloseConnection
    <2>1. g \notin contexts /\ g \notin calls
      BY <1>1, <1>3 DEF PoolIsSound
    <2>2. TypeOK'
      BY <1>1, <1>3 DEF TypeOK, admission, queue
    <2>3. PoolIsSound'
      BY <1>1, <1>3, <2>1 DEF PoolIsSound, admission
    <2>4. Apart' /\ Kept' /\ Borrowed'
      BY <1>3, <2>1 DEF IInv, Apart, Kept, Borrowed
    <2>5. Owned'
      BY <1>3 DEF IInv, Owned
    <2>6. ASSUME NEW d \in Callers  PROVE HandsOf(d)' /\ BuiltApart(d)'
      BY <1>3 DEF IInv, HandsOf, BuiltApart
    <2> QED  BY <2>2, <2>3, <2>4, <2>5, <2>6 DEF IInv
  <1> QED  BY <1>2, <1>3

-----------------------------------------------------------------------------
(***************************************************************************)
(* What holds throughout.                                                  *)
(***************************************************************************)
LEMMA InitialInvariant ==
    ASSUME Init
    PROVE  IInv
  <1>1. /\ TargetSize \in Nat /\ Names \in Nat /\ TargetSize <= Names
        /\ 1..TargetSize \subseteq Contexts
    BY PoolAssumption DEF Contexts
  <1>2. /\ available \in Seq(Contexts) /\ Distinct(available)
        /\ Inside(available) = 1..TargetSize
    BY <1>1 DEF Init, Distinct, Inside
  <1>3. TypeOK
    <2>1. <<>> \in Seq(Callers)
      OBVIOUS
    <2>2. /\ waiters \in Seq(Callers) /\ contexts \subseteq Contexts /\ healthy \subseteq Contexts
          /\ open \subseteq Contexts
      BY <1>1, <2>1 DEF Init
    <2>3. /\ pc \in [Callers -> Stages] /\ back \in [Callers -> {"acquire", "run", "idle"}]
          /\ held \in [Callers -> Contexts \cup {None}] /\ made \in [Callers -> Contexts \cup {None}]
          /\ probe \in [Probers -> Contexts \cup {None}]
      BY DEF Init, Stages
    <2> QED  BY <1>2, <2>2, <2>3 DEF Init, TypeOK
  <1>4. PoolIsSound /\ Apart /\ Kept /\ Borrowed /\ Owned
    BY <1>2 DEF Init, PoolIsSound, Apart, Kept, Borrowed, Owned
  <1>5. ASSUME NEW c \in Callers  PROVE HandsOf(c) /\ BuiltApart(c)
    BY DEF Init, HandsOf, BuiltApart
  <1> QED  BY <1>3, <1>4, <1>5 DEF IInv

LEMMA InvariantStep ==
    ASSUME IInv, [Next]_vars
    PROVE  IInv'
  <1>1. ASSUME NEW c \in Callers, quarantine_current_context(c)  PROVE IInv'
    BY <1>1, RemoveStep DEF quarantine_current_context
  <1>2. CASE UNCHANGED vars
    <2> USE <1>2 DEF vars, admission, queue, thread, probes, IInv
    <2>1. TypeOK'
      BY DEF TypeOK
    <2>2. PoolIsSound' /\ Apart' /\ Kept' /\ Borrowed' /\ Owned'
      BY DEF PoolIsSound, Apart, Kept, Borrowed, Owned
    <2>3. ASSUME NEW c \in Callers  PROVE HandsOf(c)' /\ BuiltApart(c)'
      BY DEF HandsOf, BuiltApart
    <2> QED  BY <2>1, <2>2, <2>3
  <1>3. ASSUME NEW c \in Callers, Progress(c)  PROVE IInv'
    BY <1>3, AdmissionStep, InspectStep, EndStep, DisposeStep, ReplenishStep, PublishStep,
       DiscardStep DEF Progress
  <1> QED
    BY <1>1, <1>2, <1>3, ReplenishStep, BuildStep, BorrowStep, GiveBackStep, CloseStep DEF Next

\* Names, hands and connections stay consistent, whatever the threads do.
THEOREM PoolInvariant == Spec => []IInv
  BY InitialInvariant, InvariantStep, PTL DEF Spec

\* Every context of the pool is free, with one request or with one probe, and
\* none is lost; every open connection has someone who closes it, and none is
\* closed under a probe: whatever is quarantined, retired, rebuilt or probed,
\* and whenever the pool is shut down.
THEOREM ContextsAccountedFor == Spec => []ContextsAreAccountedFor
  <1>1. IInv => ContextsAreAccountedFor
    <2> SUFFICES ASSUME IInv  PROVE ContextsAreAccountedFor
      OBVIOUS
    <2>1. ContextsAreExclusive
      <3>1. Distinct(available)
        BY DEF IInv, PoolIsSound
      <3> QED  BY <3>1 DEF IInv, Apart, ContextsAreExclusive, Holding, Probing, Distinct
    <2>2. NoContextIsLost
      BY NoneIsNoContext DEF IInv, TypeOK, Kept, NoContextIsLost, Holding, Probing
    <2>3. ProbesAreProtected
      BY NoneIsNoContext DEF IInv, TypeOK, Borrowed, ProbesAreProtected, Probing
    <2>4. NoConnectionLeaks
      BY DEF IInv, PoolIsSound, Borrowed, Owned, NoConnectionLeaks
    <2> QED  BY <2>1, <2>2, <2>3, <2>4 DEF IInv, ContextsAreAccountedFor
  <1> QED  BY <1>1, PoolInvariant, PTL

-----------------------------------------------------------------------------
(***************************************************************************)
(* The admission queue: who waits is in it, and sleeps only for a reason.  *)
(***************************************************************************)
WaitersQueue == \A c \in Callers : pc[c] = "wait" => c \in Inside(waiters)

LEMMA TurnKeepsQueue ==
    ASSUME TypeOK, WaitersQueue, NoWakeupIsLost, NEW c \in Callers, NEW line \in Seq(Callers),
           NEW sleepers \in SUBSET asleep, NEW expired, Turn(c, line, sleepers, expired),
           Inside(line) = Inside(waiters) \cup {c},
           \A d \in sleepers : Served(d, line) => Served(d, waiters),
           UNCHANGED <<accepting, closed>>
    PROVE  WaitersQueue' /\ NoWakeupIsLost'
  <1>1. CASE Leave(c, line) /\ \E s \in {"run", "idle"} : pc' = [pc EXCEPT ![c] = s]
    <2>1. asleep' = {} /\ Inside(line) \ {c} \subseteq Inside(waiters')
      BY <1>1, WithoutFacts DEF Leave
    <2> QED  BY <1>1, <2>1 DEF WaitersQueue, NoWakeupIsLost, TypeOK
  <1>2. CASE /\ ~Refused(c) /\ ~Served(c, line) /\ waiters' = line /\ asleep' = sleepers \cup {c}
             /\ pc' = [pc EXCEPT ![c] = "wait"] /\ UNCHANGED <<held, available, stale>>
    <2>1. \A d : Refused(d)' <=> Refused(d)
      BY <1>2 DEF Refused
    <2>2. \A d : Served(d, waiters)' <=> Served(d, line)
      BY <1>2, <2>1 DEF Served
    <2>3. NoWakeupIsLost'
      BY <1>2, <2>1, <2>2 DEF NoWakeupIsLost
    <2>4. WaitersQueue'
      BY <1>2 DEF WaitersQueue, TypeOK
    <2> QED  BY <2>3, <2>4
  <1> QED  BY <1>1, <1>2 DEF Turn

\* A step that wakes everyone, or that changes nothing anyone waits for.
LEMMA QueueIsKept ==
    ASSUME WaitersQueue, NoWakeupIsLost, UNCHANGED waiters,
           \A d \in Callers : pc'[d] = "wait" => pc[d] = "wait",
           \/ asleep' = {}
           \/ /\ UNCHANGED <<accepting, closed, stale, asleep>>
              /\ available = <<>> => available' = <<>>
    PROVE  WaitersQueue' /\ NoWakeupIsLost'
  BY DEF WaitersQueue, NoWakeupIsLost, Refused, Served

\* No waiter sleeps through what it waits for: while it sleeps it is in the
\* queue, is not to be refused, and is not first with a context free.
THEOREM NoWakeupLost == Spec => []NoWakeupIsLost
  <1>1. Init => WaitersQueue /\ NoWakeupIsLost
    BY DEF Init, WaitersQueue, NoWakeupIsLost
  <1>2. TypeOK /\ WaitersQueue /\ NoWakeupIsLost /\ [Next]_vars => WaitersQueue' /\ NoWakeupIsLost'
    <2> SUFFICES ASSUME TypeOK, WaitersQueue, NoWakeupIsLost, [Next]_vars
                 PROVE  WaitersQueue' /\ NoWakeupIsLost'
      OBVIOUS
    <2> USE DEF admission, queue, thread, probes
    <2>1. ASSUME NEW c \in Callers, Acquire(c)  PROVE WaitersQueue' /\ NoWakeupIsLost'
      <3>1. Append(waiters, c) \in Seq(Callers) /\ Inside(Append(waiters, c)) = Inside(waiters) \cup {c}
        BY AppendFacts DEF TypeOK
      <3>2. PICK expired \in BOOLEAN : Turn(c, Append(waiters, c), {}, expired)
        BY <2>1 DEF Acquire
      <3>3. UNCHANGED <<accepting, closed>>
        BY <2>1 DEF Acquire
      <3>4. PICK none \in SUBSET asleep : none = {}
        OBVIOUS
      <3>5. Turn(c, Append(waiters, c), none, expired)
        BY <3>2, <3>4
      <3>6. \A d \in none : Served(d, Append(waiters, c)) => Served(d, waiters)
        BY <3>4
      <3> QED  BY <3>1, <3>3, <3>5, <3>6, TurnKeepsQueue
    <2>2. ASSUME NEW c \in Callers, Wake(c)  PROVE WaitersQueue' /\ NoWakeupIsLost'
      <3>1. waiters \in Seq(Callers) /\ Inside(waiters) = Inside(waiters) \cup {c}
        BY <2>2 DEF Wake, WaitersQueue, TypeOK
      <3>2. PICK expired \in BOOLEAN : Turn(c, waiters, asleep, expired)
        BY <2>2 DEF Wake
      <3> QED  BY <2>2, <3>1, <3>2, TurnKeepsQueue DEF Wake
    <2>3. ASSUME NEW c \in Callers, Enter(c) \/ Replenish(c)  PROVE WaitersQueue' /\ NoWakeupIsLost'
      <3>1. \A d \in Callers : pc'[d] = "wait" => pc[d] = "wait"
        BY <2>3 DEF Enter, Replenish, _replenish_once, TypeOK
      <3> QED  BY <2>3, <3>1, QueueIsKept DEF Enter, Replenish
    <2>4. ASSUME NEW c \in Callers, BuildSucceeds(c) \/ BuildFails(c) \/ Publish(c) \/ Discard(c)
          PROVE  WaitersQueue' /\ NoWakeupIsLost'
      <3>1. \A d \in Callers : pc'[d] = "wait" => pc[d] = "wait"
        BY <2>4 DEF BuildSucceeds, BuildFails, Publish, Discard, TypeOK
      <3> QED  BY <2>4, <3>1, QueueIsKept DEF BuildSucceeds, BuildFails, Publish, Discard,
                  invalidate_waiters, publish
    <2>5. ASSUME NEW c \in Callers, Inspect(c) \/ Dispose(c) \/ _reclaim(c)
          PROVE  WaitersQueue' /\ NoWakeupIsLost'
      <3>1. \A d \in Callers : pc'[d] = "wait" => pc[d] = "wait"
        BY <2>5 DEF Inspect, Dispose, _reclaim, TypeOK
      <3> QED  BY <2>5, <3>1, QueueIsKept DEF Inspect, Dispose, _reclaim, release
    <2>6. ASSUME NEW c \in Callers, quarantine_current_context(c) \/ _retire(c)
          PROVE  WaitersQueue' /\ NoWakeupIsLost'
      <3>1. \A d \in Callers : pc'[d] = "wait" => pc[d] = "wait"
        BY <2>6 DEF quarantine_current_context, _retire, Remove, TypeOK
      <3> QED  BY <2>6, <3>1, QueueIsKept DEF quarantine_current_context, _retire, Remove,
                  invalidate_waiters
    <2>7. ASSUME NEW p \in Probers, is_ready(p)  PROVE WaitersQueue' /\ NoWakeupIsLost'
      BY <2>7, QueueIsKept DEF is_ready
    <2>8. ASSUME NEW p \in Probers, _release_probe_context(p)  PROVE WaitersQueue' /\ NoWakeupIsLost'
      BY <2>8, QueueIsKept DEF _release_probe_context, release
    <2>9. CASE Close
      BY <2>9, QueueIsKept DEF Close
    <2>10. CASE (\E g \in Contexts : CloseConnection(g)) \/ UNCHANGED vars
      BY <2>10, QueueIsKept DEF CloseConnection, vars
    <2> QED
      BY <2>1, <2>2, <2>3, <2>4, <2>5, <2>6, <2>7, <2>8, <2>9, <2>10 DEF Next, Progress
  <1>3. IInv => TypeOK
    BY DEF IInv
  <1> QED  BY <1>1, <1>2, <1>3, PoolInvariant, PTL DEF Spec

=============================================================================
