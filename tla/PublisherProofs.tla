-------------------------- MODULE PublisherProofs --------------------------
(***************************************************************************)
(* Proofs about the shared notifier, for any number of instances and       *)
(* connections and for all timeouts. The bound on how long an instance is  *)
(* held rests on the order of those that wait for the mutex and on the one *)
(* time that they can be overtaken; that no connection leaks, on there     *)
(* being one attempt to connect at a time, by the holder of the mutex; and *)
(* the bound on the closes, on what each of those before an instance may   *)
(* still need and on there being no more of them than instances.           *)
(***************************************************************************)
EXTENDS Publisher, SequenceTheorems, FiniteSetTheorems, TLAPS

States == {"idle", "locking", "connecting", "sending", "gone"}
Places == 1..Len(waiters)

\* The mutex and the instances have their types, and agree: only the holder is
\* past the mutex, and whoever asks for it holds it or waits.
MutexTypes ==
    /\ state \in [Instances -> States]
    /\ holder \in Instances \cup {None}
    /\ waiters \in Seq(Instances)
    /\ woken \in BOOLEAN /\ starving \in BOOLEAN
    /\ \A i \in Instances :
          /\ state[i] \in {"connecting", "sending"} => holder = i
          /\ state[i] = "locking" =>
               holder = i \/ \E k \in Places : waiters[k] = i

\* Those that wait are different, none of them is the holder, and the first
\* one is woken when the mutex is free.
Queue ==
    /\ \A k \in Places : state[waiters[k]] = "locking" /\ waiters[k] # holder
    /\ \A j, k \in Places : waiters[j] = waiters[k] => j = k
    /\ holder # None => state[holder] \in {"locking", "connecting", "sending"}
    /\ woken \/ starving => waiters # <<>>
    /\ starving => holder # None /\ ~woken
    /\ holder = None /\ waiters # <<>> => woken

\* The first one has waited longest. Before it is overtaken it has waited no
\* longer than the holder holds, and afterwards at most a timeout more.
Ages ==
    /\ age \in [Instances -> Nat]
    /\ \A i \in Instances : state[i] \in {"idle", "gone"} => age[i] = 0
    /\ \A j, k \in Places : j <= k => age[waiters[k]] <= age[waiters[j]]
    /\ holder # None => age[holder] <= 2 * Timeout
    /\ ~starving => \A k \in Places :
          /\ age[waiters[k]] <= Timeout
          /\ ~woken => age[waiters[k]] <= age[holder]
    /\ starving => \A k \in Places :
          /\ age[waiters[k]] <= 2 * Timeout
          /\ age[waiters[k]] <= age[holder] + Timeout

MutexInv == MutexTypes /\ Queue /\ Ages

-----------------------------------------------------------------------------
(* What a step means for the mutex                                         *)

mutexVars == <<state, age, mutex>>

\* The holder goes on with its publication.
Advances ==
    /\ holder # None /\ state[holder] \in {"locking", "connecting"}
    /\ \E s \in {"connecting", "sending"} :
          state' = [state EXCEPT ![holder] = s]
    /\ UNCHANGED <<age, mutex>>

\* The holder is done with it.
Returns ==
    /\ holder # None /\ state[holder] \in {"connecting", "sending"}
    /\ \E s \in {"idle", "gone"} : state' = [state EXCEPT ![holder] = s]
    /\ age' = [age EXCEPT ![holder] = 0]
    /\ Unlock

\* An instance asks for it.
Asks ==
    \E i \in Instances :
        /\ state[i] = "idle"
        /\ age' = [age EXCEPT ![i] = 0]
        /\ state' = [state EXCEPT ![i] = "locking"]
        /\ IF holder = None
           THEN holder' = i /\ UNCHANGED waiters
           ELSE waiters' = Append(waiters, i) /\ UNCHANGED holder
        /\ UNCHANGED <<woken, starving>>

\* Time passes, unless there is something to do at once.
TimePasses ==
    /\ ~woken /\ (holder # None => age[holder] < Timeout)
    /\ age' = Grow(age, Publishing, MaxAge)
    /\ UNCHANGED <<state, mutex>>

LEMMA HungTypes ==
  ASSUME MutexTypes, hung \in [Instances -> Nat], age \in [Instances -> Nat]
  PROVE  holder # None => age[holder] \in Nat /\ hung[holder] \in Nat
  BY DEF MutexTypes

LEMMA StepKinds ==
  ASSUME MutexInv, hung \in [Instances -> Nat], [Next]_vars
  PROVE  \/ Advances \/ Returns \/ Asks \/ Wake \/ TimePasses
         \/ UNCHANGED mutexVars
<1> USE DEF mutexVars, mutex
<1>0. None \notin Instances
  BY PublisherAssumption
<1>1. ASSUME NEW i \in Instances, Return(i),
             state[i] \in {"connecting", "sending"}
      PROVE  Returns
  <2>1. holder = i /\ i # None
    BY <1>0, <1>1 DEF MutexInv, MutexTypes
  <2> QED
    BY <1>1, <2>1 DEF Return, Returns
<1>2. ASSUME NEW i \in Instances, holder = i,
             state[i] \in {"locking", "connecting"},
             NEW s \in {"connecting", "sending"},
             state' = [state EXCEPT ![i] = s], UNCHANGED <<age, mutex>>
      PROVE  Advances
  BY <1>0, <1>2 DEF Advances
<1>3. CASE Wake
  BY <1>3
<1>4. ASSUME NEW i \in Instances, UseConnection(i)
      PROVE  Advances
  <2>1. holder = i /\ state[i] = "locking" /\ UNCHANGED <<age, mutex>>
        /\ state' = [state EXCEPT ![i] = "sending"]
    BY <1>4 DEF UseConnection
  <2> QED
    BY <1>2, <2>1
<1>5. ASSUME NEW i \in Instances, Connects(i)
      PROVE  Advances
  <2>1. state[i] = "connecting" /\ UNCHANGED <<age, mutex>>
        /\ state' = [state EXCEPT ![i] = "sending"]
    BY <1>5 DEF Connects
  <2>2. holder = i
    BY <2>1 DEF MutexInv, MutexTypes
  <2> QED
    BY <1>2, <2>1, <2>2
<1>6. ASSUME NEW i \in Instances, Connect(i)
      PROVE  Advances
  <2>1. holder = i /\ state[i] = "locking" /\ UNCHANGED <<age, mutex>>
        /\ state' = [state EXCEPT ![i] = "connecting"]
    BY <1>6 DEF Connect
  <2> QED
    BY <1>2, <2>1
<1>7. ASSUME NEW i \in Instances,
             ConnectFails(i) \/ ConnectExpires(i) \/ SendFails(i) \/ Answered(i)
      PROVE  Returns
  <2>1. Return(i) /\ state[i] \in {"connecting", "sending"}
    BY <1>7 DEF ConnectFails, ConnectExpires, SendFails, Answered
  <2> QED
    BY <1>1, <2>1
<1>8. ASSUME NEW i \in Instances, NEW stop \in BOOLEAN, OnEvent(i, stop)
      PROVE  Asks
  BY <1>8 DEF OnEvent, Asks
<1>9. CASE Tick
  <2>1. CASE Hanging
    BY <1>9, <2>1 DEF Tick
  <2>2. CASE ~Hanging
    <3>1. ~Urgent /\ age' = Grow(age, Publishing, MaxAge)
          /\ UNCHANGED <<state, mutex>>
      BY <1>9, <2>2 DEF Tick
    <3>2. ~woken
      BY <3>1 DEF Urgent
    <3>3. ASSUME holder # None
          PROVE  age[holder] < Timeout
      <4>1. ~Expired(holder)
        BY <2>2, <3>1, <3>3 DEF Urgent, GivesUp
      <4>2. ~(age[holder] + hung[holder] >= Timeout)
        BY <4>1 DEF Expired
      <4>3. age[holder] \in Nat /\ hung[holder] \in Nat
        BY <3>3, HungTypes DEF MutexInv, Ages
      <4> QED
        BY <4>2, <4>3, PublisherAssumption
    <3> QED
      BY <3>1, <3>2, <3>3 DEF TimePasses
  <2> QED
    BY <2>1, <2>2
<1>10. ASSUME NEW c \in Dials, NEW how \in {"open", "failed"}, DialEnds(c, how)
       PROVE  UNCHANGED mutexVars
  BY <1>10 DEF DialEnds, instanceVars
<1>11. ASSUME NEW c \in Dials, Reap(c) \/ HangsUpLate(c) \/ CloseEnds(c)
       PROVE  UNCHANGED mutexVars
  BY <1>11 DEF Reap, HangsUpLate, CloseEnds, instanceVars
<1>12. ASSUME NEW c \in Dials, NEW how \in {"dead", "nochannel"}, Breaks(c, how)
       PROVE  UNCHANGED mutexVars
  BY <1>12 DEF Breaks, instanceVars
<1>13. CASE Cancel \/ HangsUpLast \/ Close \/ Finished \/ UNCHANGED vars
  BY <1>13 DEF Cancel, HangsUpLast, Close, Finished, vars, instanceVars
<1>14. ASSUME NEW i \in Instances, HangsUpOld(i) \/ HangsUp(i)
       PROVE  UNCHANGED mutexVars
  BY <1>14 DEF HangsUpOld, HangsUp, instanceVars
<1> QED
  BY <1>3, <1>4, <1>5, <1>6, <1>7, <1>8, <1>9, <1>10, <1>11, <1>12, <1>13,
     <1>14
  DEF Next, Program, Report, Environment

-----------------------------------------------------------------------------
(* The mutex                                                               *)

LEMMA TimeIsPositive == Timeout \in Nat \ {0} /\ None \notin Instances
  BY PublisherAssumption

LEMMA AdvanceKeeps ==
  ASSUME MutexInv, Advances
  PROVE  MutexInv'
<1> USE TimeIsPositive DEF MutexInv
<1>1. PICK s \in {"connecting", "sending"} :
         state' = [state EXCEPT ![holder] = s]
  BY DEF Advances
<1>2. /\ holder \in Instances /\ UNCHANGED <<age, mutex>>
      /\ state[holder] \in {"locking", "connecting"}
  BY DEF Advances, MutexTypes
<1>3. Places' = Places
  BY <1>2 DEF Places, mutex
<1>4. MutexTypes'
  BY <1>1, <1>2, <1>3 DEF MutexTypes, States, mutex
<1>5. Queue'
  BY <1>1, <1>2, <1>3 DEF MutexTypes, Queue, Places, mutex
<1>6. Ages'
  BY <1>1, <1>2, <1>3 DEF MutexTypes, Queue, Ages, Places, mutex
<1> QED
  BY <1>4, <1>5, <1>6

\* When the first one that waits gets the mutex, the others move up.
LEMMA MovingUp ==
  ASSUME NEW q \in Seq(Instances), q # <<>>
  PROVE  /\ Head(q) = q[1] /\ Head(q) \in Instances
         /\ Tail(q) \in Seq(Instances)
         /\ Len(q) \in Nat \ {0} /\ Len(Tail(q)) = Len(q) - 1
         /\ \A k \in 1..Len(Tail(q)) :
               k \in 1..Len(q) /\ k + 1 \in 1..Len(q) /\ Tail(q)[k] = q[k + 1]
         /\ \A k \in 1..Len(q) :
               k = 1 \/ (k - 1 \in 1..Len(Tail(q)) /\ Tail(q)[k - 1] = q[k])
         /\ Tail(q) = <<>> <=> ~(Len(q) > 1)
<1>1. Head(q) = q[1] /\ Len(q) \in Nat \ {0}
  BY EmptySeq, LenProperties
<1>2. /\ Head(q) \in Instances /\ Tail(q) \in Seq(Instances)
      /\ Len(Tail(q)) = Len(q) - 1
      /\ \A i \in 1..Len(Tail(q)) : Tail(q)[i] = q[i + 1]
  BY HeadTailProperties
<1>3. Tail(q) = <<>> <=> Len(Tail(q)) = 0
  BY <1>2, EmptySeq
<1> QED
  BY <1>1, <1>2, <1>3

LEMMA Handed ==
  ASSUME MutexTypes, waiters # <<>>, waiters' = Tail(waiters)
  PROVE  /\ Head(waiters) = waiters[1] /\ waiters[1] \in Instances
         /\ 1 \in Places /\ waiters' \in Seq(Instances)
         /\ Places \subseteq Nat
         /\ \A k \in Places' : /\ k \in Places /\ k + 1 \in Places
                               /\ waiters'[k] = waiters[k + 1]
         /\ \A k \in Places :
               k = 1 \/ (k - 1 \in Places' /\ waiters'[k - 1] = waiters[k])
         /\ (Len(waiters) > 1) <=> (waiters' # <<>>)
         /\ waiters' = <<>> => Places' = {}
<1>1. waiters \in Seq(Instances)
  BY DEF MutexTypes
<1>2. /\ Head(waiters) = waiters[1] /\ Head(waiters) \in Instances
      /\ Tail(waiters) \in Seq(Instances)
      /\ Len(waiters) \in Nat \ {0} /\ Len(Tail(waiters)) = Len(waiters) - 1
      /\ \A k \in 1..Len(Tail(waiters)) :
            /\ k \in 1..Len(waiters) /\ k + 1 \in 1..Len(waiters)
            /\ Tail(waiters)[k] = waiters[k + 1]
      /\ \A k \in 1..Len(waiters) :
            k = 1 \/ (/\ k - 1 \in 1..Len(Tail(waiters))
                     /\ Tail(waiters)[k - 1] = waiters[k])
      /\ Tail(waiters) = <<>> <=> ~(Len(waiters) > 1)
  BY <1>1, MovingUp, Zenon
<1>3. Places' = 1..Len(Tail(waiters)) /\ Places = 1..Len(waiters)
  BY DEF Places
<1>4. /\ 1 \in Places /\ Places \subseteq Nat
      /\ Tail(waiters) = <<>> => Places' = {}
  BY <1>2, <1>3
<1> QED
  BY <1>2, <1>3, <1>4, Zenon

LEMMA ReturnKeepsMutex ==
  ASSUME MutexInv, Returns
  PROVE  MutexInv'
<1> USE TimeIsPositive DEF MutexInv
<1>1. PICK s \in {"idle", "gone"} : state' = [state EXCEPT ![holder] = s]
  BY DEF Returns
<1>2. /\ holder \in Instances /\ age' = [age EXCEPT ![holder] = 0] /\ Unlock
      /\ state[holder] \in {"connecting", "sending"}
  BY DEF Returns, MutexTypes
<1>3. \A i \in Instances :
         i # holder => state'[i] = state[i] /\ age'[i] = age[i]
  BY <1>1, <1>2 DEF MutexTypes, Ages
<1>4. /\ \A k \in Places : waiters[k] \in Instances /\ waiters[k] # holder
      /\ \A k \in Places : state'[waiters[k]] = "locking"
      /\ \A k \in Places : age'[waiters[k]] = age[waiters[k]]
  BY <1>3 DEF MutexTypes, Queue, Places
<1>5. state' \in [Instances -> States] /\ age' \in [Instances -> Nat]
      /\ state'[holder] = s /\ age'[holder] = 0
  BY <1>1, <1>2 DEF MutexTypes, Ages, States
<1>6. CASE starving
  <2>1. /\ waiters # <<>> /\ waiters \in Seq(Instances)
        /\ holder' = Head(waiters) /\ waiters' = Tail(waiters)
        /\ starving' = (Len(waiters) > 1) /\ woken' = woken /\ ~woken
    BY <1>2, <1>6 DEF Unlock, Queue, MutexTypes
  <2>2. /\ holder' = waiters[1] /\ holder' \in Instances /\ 1 \in Places
        /\ Places \subseteq Nat
        /\ waiters' \in Seq(Instances)
        /\ \A k \in Places' : /\ k \in Places /\ k + 1 \in Places
                              /\ waiters'[k] = waiters[k + 1]
        /\ starving' <=> waiters' # <<>>
        /\ ~starving' => Places' = {}
    BY <2>1, Handed, Zenon
  <2>22. \A k \in Places' :
            /\ waiters'[k] = waiters[k + 1] /\ waiters[k + 1] \in Instances
            /\ state'[waiters'[k]] = "locking"
            /\ age'[waiters'[k]] = age[waiters[k + 1]]
    <3> TAKE k \in Places'
    <3>1. k + 1 \in Places /\ waiters'[k] = waiters[k + 1]
      BY <2>2, Zenon
    <3>2. /\ waiters[k + 1] \in Instances
          /\ state'[waiters[k + 1]] = "locking"
          /\ age'[waiters[k + 1]] = age[waiters[k + 1]]
      BY <3>1, <1>4, Zenon
    <3> QED
      BY <3>1, <3>2, Zenon
  <2>23. /\ waiters[1] \in Instances /\ state'[waiters[1]] = "locking"
         /\ age'[holder'] = age[waiters[1]]
    BY <2>2, <1>4, Zenon
  <2>3. MutexTypes'
    <3>0. \A k \in Places :
             k = 1 \/ (k - 1 \in Places' /\ waiters'[k - 1] = waiters[k])
      BY <2>1, Handed, Zenon
    <3>1. ASSUME NEW i \in Instances, state'[i] = "locking", holder' # i
          PROVE  \E k \in Places' : waiters'[k] = i
      <4>1. i # holder /\ state[i] = "locking"
        BY <3>1, <1>3, <1>5
      <4>2. PICK k \in Places : waiters[k] = i
        BY <4>1 DEF MutexTypes
      <4> QED
        BY <4>2, <3>0, <3>1, <2>2
    <3>2. \A i \in Instances : state'[i] \notin {"connecting", "sending"}
      BY <1>3, <1>5 DEF MutexTypes
    <3>3. starving' \in BOOLEAN /\ woken' \in BOOLEAN
      BY <2>1 DEF MutexTypes
    <3> QED
      BY <3>1, <3>2, <3>3, <2>2, <1>5 DEF MutexTypes
  <2>4. Queue'
    <3>1. \A k \in Places' : state'[waiters'[k]] = "locking"
      BY <2>22
    <3>2. \A j, k \in Places' : waiters'[j] = waiters'[k] => j = k
      <4> TAKE j, k \in Places'
      <4>1. waiters[j + 1] = waiters[k + 1] => j + 1 = k + 1
        BY <2>2 DEF Queue
      <4>2. j \in Nat /\ k \in Nat
        BY <2>2
      <4> QED
        BY <4>1, <4>2, <2>2
    <3>3. \A k \in Places' : waiters'[k] # holder'
      <4> TAKE k \in Places'
      <4>1. waiters[k + 1] = waiters[1] => k + 1 = 1
        BY <2>2 DEF Queue
      <4>2. k \in Nat /\ k \in Places /\ Places = 1..Len(waiters)
        BY <2>2 DEF Places
      <4>3. k # 0
        BY <4>2, LenProperties DEF MutexTypes
      <4> QED
        BY <4>1, <4>2, <4>3, <2>2
    <3>4. state'[holder'] = "locking" /\ holder' # None
      BY <2>2, <1>4
    <3>5. (starving' => waiters' # <<>>) /\ ~woken'
      BY <2>1, <2>2
    <3> QED
      BY <3>1, <3>2, <3>3, <3>4, <3>5 DEF Queue
  <2>5. Ages'
    <3>1. \A i \in Instances : state'[i] \in {"idle", "gone"} => age'[i] = 0
      BY <1>3, <1>5 DEF Ages
    <3>2. \A j, k \in Places' : j <= k => age'[waiters'[k]] <= age'[waiters'[j]]
      <4> SUFFICES ASSUME NEW j \in Places', NEW k \in Places', j <= k
                   PROVE  age'[waiters'[k]] <= age'[waiters'[j]]
        OBVIOUS
      <4>0. j \in Nat /\ k \in Nat
        <5>1. j \in Places /\ k \in Places
          BY <2>2, Zenon
        <5> QED
          BY <5>1, <2>2
      <4>1. j + 1 <= k + 1
        BY <4>0
      <4>2. j + 1 \in Places /\ k + 1 \in Places
        BY <2>2
      <4>3. age[waiters[k + 1]] <= age[waiters[j + 1]]
        BY <4>1, <4>2 DEF Ages
      <4> QED
        BY <4>3, <2>22
    <3>3. age'[holder'] <= 2 * Timeout
      BY <2>2, <2>23, <1>6 DEF Ages
    <3>4. \A k \in Places' :
             /\ age'[waiters'[k]] <= 2 * Timeout
             /\ age'[waiters'[k]] <= age'[holder'] + Timeout
      <4> TAKE k \in Places'
      <4>1. /\ age[waiters[k + 1]] <= age[waiters[1]]
            /\ age[waiters[k + 1]] <= 2 * Timeout
        <5>1. k + 1 \in Places /\ 1 \in Places /\ k \in Nat
          BY <2>2
        <5>2. 1 <= k + 1
          BY <5>1
        <5> QED
          BY <5>1, <5>2, <1>6 DEF Ages
      <4>2. age[waiters[k + 1]] \in Nat /\ age[waiters[1]] \in Nat
        BY <2>22, <2>23 DEF Ages
      <4>3. age'[waiters'[k]] = age[waiters[k + 1]]
        BY <2>22
      <4> QED
        BY <4>1, <4>2, <4>3, <2>23
    <3> QED
      BY <3>1, <3>2, <3>3, <3>4, <2>2, <1>5 DEF Ages
  <2> QED
    BY <2>3, <2>4, <2>5
<1>7. CASE ~starving
  <2>1. /\ holder' = None /\ woken' = (waiters # <<>>)
        /\ waiters' = waiters /\ starving' = starving
        /\ Places' = Places
    BY <1>2, <1>7 DEF Unlock, Places
  <2>2. MutexTypes'
    <3>1. ASSUME NEW i \in Instances, state'[i] = "locking"
          PROVE  \E k \in Places' : waiters'[k] = i
      BY <3>1, <1>3, <1>5, <2>1 DEF MutexTypes
    <3>2. \A i \in Instances : state'[i] \notin {"connecting", "sending"}
      BY <1>3, <1>5 DEF MutexTypes
    <3> QED
      BY <3>1, <3>2, <2>1, <1>5 DEF MutexTypes
  <2>3. Queue'
    <3>1. \A k \in Places' : waiters'[k] \in Instances
                            /\ state'[waiters'[k]] = "locking"
      BY <2>1, <1>4
    <3>2. \A j, k \in Places' : waiters'[j] = waiters'[k] => j = k
      BY <2>1 DEF Queue
    <3>3. woken' <=> waiters' # <<>>
      BY <2>1, Zenon
    <3> QED
      BY <3>1, <3>2, <3>3, <2>1, <1>7 DEF Queue
  <2>4. Ages'
    <3>1. \A i \in Instances : state'[i] \in {"idle", "gone"} => age'[i] = 0
      BY <1>3, <1>5 DEF Ages
    <3>2. Places' # {} => woken'
      <4>1. waiters = <<>> => Places' = {}
        BY <2>1 DEF Places
      <4> QED
        BY <4>1, <2>1, Zenon
    <3> QED
      BY <3>1, <3>2, <2>1, <1>4, <1>5, <1>7 DEF Ages
  <2> QED
    BY <2>2, <2>3, <2>4
<1> QED
  BY <1>6, <1>7

LEMMA WakeKeeps ==
  ASSUME MutexInv, Wake
  PROVE  MutexInv'
<1> USE TimeIsPositive DEF MutexInv
<1>1. /\ woken /\ woken' = FALSE /\ state' = state /\ age' = age
      /\ ~starving /\ waiters # <<>>
  BY DEF Wake, Queue, instanceVars
<1>2. CASE holder = None
  <2>1. /\ holder' = Head(waiters) /\ waiters' = Tail(waiters)
        /\ starving' = starving
    BY <1>2 DEF Wake
  <2>2. /\ holder' = waiters[1] /\ holder' \in Instances /\ 1 \in Places
        /\ waiters' \in Seq(Instances)
        /\ Places \subseteq Nat
        /\ \A k \in Places' : /\ k \in Places /\ k + 1 \in Places
                              /\ waiters'[k] = waiters[k + 1]
    BY <1>1, <2>1, Handed, Zenon
  <2>3. MutexTypes'
    <3>1. ASSUME NEW i \in Instances, state'[i] = "locking", holder' # i
          PROVE  \E k \in Places' : waiters'[k] = i
      <4>1. PICK k \in Places : waiters[k] = i
        BY <1>1, <1>2, <3>1 DEF MutexTypes
      <4>2. k = 1 \/ (k - 1 \in Places' /\ waiters'[k - 1] = waiters[k])
        BY <1>1, <2>1, Handed, Zenon
      <4> QED
        BY <4>1, <4>2, <3>1, <2>2
    <3>2. \A i \in Instances : state'[i] \notin {"connecting", "sending"}
      BY <1>1, <1>2 DEF MutexTypes
    <3> QED
      BY <3>1, <3>2, <1>1, <2>1, <2>2 DEF MutexTypes
  <2>4. ASSUME NEW k \in Places'
        PROVE  /\ k \in Nat \ {0} /\ k + 1 \in Places
               /\ waiters'[k] = waiters[k + 1]
               /\ waiters[k + 1] \in Instances
               /\ state[waiters[k + 1]] = "locking"
               /\ age[waiters[k + 1]] \in Nat
               /\ age[waiters[k + 1]] <= age[waiters[1]]
               /\ age[waiters[k + 1]] <= Timeout
    <3>1. k \in Places /\ k + 1 \in Places /\ waiters'[k] = waiters[k + 1]
      BY <2>2, Zenon
    <3>2. k \in Nat \ {0} /\ 1 <= k + 1
      BY <3>1, LenProperties DEF Places, MutexTypes
    <3>3. waiters[k + 1] \in Instances
      BY <3>1 DEF MutexTypes, Places
    <3>4. state[waiters[k + 1]] = "locking"
      BY <3>1 DEF Queue
    <3>5. /\ age[waiters[k + 1]] \in Nat
          /\ age[waiters[k + 1]] <= age[waiters[1]]
          /\ age[waiters[k + 1]] <= Timeout
      BY <1>1, <2>2, <3>1, <3>2, <3>3 DEF Ages
    <3> QED
      BY <3>1, <3>2, <3>3, <3>4, <3>5
  <2>5. Queue'
    <3>1. \A k \in Places' : state'[waiters'[k]] = "locking"
      BY <1>1, <2>4
    <3>2. ASSUME NEW j \in Places', NEW k \in Places', waiters'[j] = waiters'[k]
          PROVE  j = k
      <4>1. j + 1 \in Places /\ k + 1 \in Places /\ j \in Nat /\ k \in Nat
        BY <2>4
      <4>2. waiters[j + 1] = waiters[k + 1]
        BY <3>2, <2>4
      <4>3. j + 1 = k + 1
        BY <4>1, <4>2 DEF Queue
      <4> QED
        BY <4>1, <4>3
    <3>3. ASSUME NEW k \in Places'
          PROVE  waiters'[k] # holder'
      <4>1. k + 1 \in Places /\ k \in Nat \ {0} /\ waiters'[k] = waiters[k + 1]
        BY <2>4
      <4>2. waiters[k + 1] = waiters[1] => k + 1 = 1
        BY <4>1, <2>2 DEF Queue
      <4> QED
        BY <4>1, <4>2, <2>2
    <3>4. state'[holder'] = "locking" /\ holder' # None
      BY <1>1, <2>2 DEF Queue
    <3> QED
      BY <3>1, <3>2, <3>3, <3>4, <1>1, <2>1 DEF Queue
  <2>6. Ages'
    <3>1. ASSUME NEW j \in Places', NEW k \in Places', j <= k
          PROVE  age'[waiters'[k]] <= age'[waiters'[j]]
      <4>1. j + 1 \in Places /\ k + 1 \in Places /\ j \in Nat /\ k \in Nat
        BY <2>4
      <4>2. j + 1 <= k + 1
        BY <3>1, <4>1
      <4>3. age[waiters[k + 1]] <= age[waiters[j + 1]]
        BY <4>1, <4>2 DEF Ages
      <4> QED
        BY <4>3, <2>4, <1>1
    <3>2. age'[holder'] <= 2 * Timeout
      <4>1. age[waiters[1]] <= Timeout /\ age[waiters[1]] \in Nat
        BY <1>1, <2>2 DEF Ages
      <4> QED
        BY <4>1, <1>1, <2>2
    <3>3. \A k \in Places' : /\ age'[waiters'[k]] <= Timeout
                            /\ age'[waiters'[k]] <= age'[holder']
      BY <1>1, <2>2, <2>4
    <3> QED
      BY <3>1, <3>2, <3>3, <1>1, <2>1 DEF Ages
  <2> QED
    BY <2>3, <2>5, <2>6
<1>3. CASE holder # None
  <2>1. /\ starving' = TRUE /\ holder' = holder /\ waiters' = waiters
        /\ Places' = Places
    BY <1>3 DEF Wake, Places
  <2>2. MutexTypes'
    BY <1>1, <2>1 DEF MutexTypes
  <2>3. Queue'
    BY <1>1, <1>3, <2>1 DEF Queue
  <2>4. Ages'
    <3>1. ASSUME NEW k \in Places
          PROVE  /\ age[waiters[k]] <= 2 * Timeout
                 /\ age[waiters[k]] <= age[holder] + Timeout
      <4>1. age[waiters[k]] <= Timeout
        BY <1>1 DEF Ages
      <4>2. age[waiters[k]] \in Nat /\ age[holder] \in Nat
        BY <1>3 DEF Ages, MutexTypes, Places
      <4> QED
        BY <4>1, <4>2
    <3> QED
      BY <3>1, <1>1, <2>1 DEF Ages
  <2> QED
    BY <2>2, <2>3, <2>4
<1> QED
  BY <1>2, <1>3

LEMMA TimeKeeps ==
  ASSUME MutexInv, TimePasses
  PROVE  MutexInv'
<1> USE TimeIsPositive DEF MutexInv
<1>1. /\ UNCHANGED <<state, holder, waiters, woken, starving>>
      /\ ~woken /\ (holder # None => age[holder] < Timeout)
      /\ Places' = Places
  BY DEF TimePasses, mutex, Places
<1>2. MutexTypes'
  BY <1>1 DEF MutexTypes
<1>3. Queue'
  BY <1>1 DEF Queue
<1>4. \A i \in Instances :
         /\ age'[i] \in Nat
         /\ i \notin Publishing => age'[i] = age[i]
         /\ age[i] <= age'[i] /\ age'[i] <= age[i] + 1
         /\ i \in Publishing /\ age[i] <= 2 * Timeout => age'[i] = age[i] + 1
  BY DEF TimePasses, Grow, Ages, MaxAge
<1>5. age' \in [Instances -> Nat]
  BY <1>4 DEF TimePasses, Grow, Ages
<1>6. Ages'
  <2>1. ASSUME NEW i \in Instances, state'[i] \in {"idle", "gone"}
        PROVE  age'[i] = 0
    BY <1>1, <1>4, <2>1 DEF Ages, Publishing
  <2>2. ASSUME NEW k \in Places
        PROVE  /\ waiters[k] \in Instances /\ age[waiters[k]] \in Nat
               /\ age[waiters[k]] <= 2 * Timeout
               /\ age'[waiters[k]] = age[waiters[k]] + 1
    <3>1. waiters[k] \in Instances
      BY DEF Places, MutexTypes
    <3>2. waiters[k] \in Publishing
      BY <3>1 DEF Queue, Publishing
    <3>3. age[waiters[k]] \in Nat /\ age[waiters[k]] <= 2 * Timeout
      BY <3>1 DEF Ages
    <3> QED
      BY <3>1, <3>2, <3>3, <1>4
  <2>3. ASSUME NEW j \in Places, NEW k \in Places, j <= k
        PROVE  age'[waiters[k]] <= age'[waiters[j]]
    <3>1. age[waiters[k]] <= age[waiters[j]]
      BY <2>3 DEF Ages
    <3> QED
      BY <3>1, <2>2
  <2>4. ASSUME holder # None
        PROVE  /\ holder \in Instances /\ age[holder] \in Nat
               /\ age[holder] < Timeout /\ age'[holder] = age[holder] + 1
    <3>1. holder \in Instances /\ age[holder] \in Nat /\ age[holder] < Timeout
      BY <1>1, <2>4 DEF MutexTypes, Ages
    <3>2. holder \in Publishing
      BY <2>4, <3>1 DEF Queue, Publishing
    <3> QED
      BY <3>1, <3>2, <1>4
  <2>5. holder' # None => age'[holder'] <= 2 * Timeout
    BY <1>1, <2>4
  <2>6. ASSUME NEW k \in Places, ~starving
        PROVE  age'[waiters[k]] <= Timeout /\ age'[waiters[k]] <= age'[holder]
    <3>1. waiters # <<>>
      BY EmptySeq DEF Places
    <3>2. holder # None
      BY <3>1, <1>1 DEF Queue
    <3>3. age[waiters[k]] <= age[holder]
      BY <1>1, <2>6 DEF Ages
    <3> QED
      BY <3>2, <3>3, <2>2, <2>4
  <2>7. ASSUME NEW k \in Places, starving
        PROVE  /\ age'[waiters[k]] <= 2 * Timeout
               /\ age'[waiters[k]] <= age'[holder] + Timeout
    <3>1. holder # None
      BY <2>7 DEF Queue
    <3>2. age[waiters[k]] <= age[holder] + Timeout
      BY <2>7 DEF Ages
    <3> QED
      BY <3>1, <3>2, <2>2, <2>4
  <2> QED
    BY <1>1, <1>5, <2>1, <2>3, <2>5, <2>6, <2>7 DEF Ages
<1> QED
  BY <1>2, <1>3, <1>6

LEMMA AskKeeps ==
  ASSUME MutexInv, Asks
  PROVE  MutexInv'
<1> USE TimeIsPositive DEF MutexInv
<1>1. PICK i \in Instances :
         /\ state[i] = "idle"
         /\ age' = [age EXCEPT ![i] = 0]
         /\ state' = [state EXCEPT ![i] = "locking"]
         /\ IF holder = None
            THEN holder' = i /\ UNCHANGED waiters
            ELSE waiters' = Append(waiters, i) /\ UNCHANGED holder
         /\ UNCHANGED <<woken, starving>>
  BY DEF Asks
<1>2. /\ i # holder /\ i # None
      /\ state' \in [Instances -> States] /\ age' \in [Instances -> Nat]
      /\ state'[i] = "locking" /\ age'[i] = 0
      /\ \A x \in Instances \ {i} : state'[x] = state[x] /\ age'[x] = age[x]
  BY <1>1 DEF MutexTypes, Queue, Ages, States
<1>3. \A k \in Places : /\ waiters[k] \in Instances \ {i}
                       /\ state'[waiters[k]] = "locking"
                       /\ age'[waiters[k]] = age[waiters[k]]
                       /\ age[waiters[k]] \in Nat
  <2> TAKE k \in Places
  <2>1. waiters[k] \in Instances /\ state[waiters[k]] = "locking"
    BY DEF MutexTypes, Queue, Places
  <2> QED
    BY <2>1, <1>1, <1>2 DEF Ages
<1>4. \A x \in Instances : state'[x] \in {"idle", "gone"} => age'[x] = 0
  BY <1>1, <1>2 DEF Ages
<1>5. CASE holder = None
  <2>1. /\ holder' = i /\ waiters' = waiters /\ Places' = Places
        /\ woken' = woken /\ starving' = starving /\ ~starving
        /\ waiters # <<>> => woken
    BY <1>1, <1>5 DEF Places, Queue
  <2>2. MutexTypes'
    BY <1>1, <1>2, <1>3, <1>5, <2>1 DEF MutexTypes
  <2>3. Queue'
    BY <1>2, <1>3, <1>5, <2>1 DEF Queue
  <2>4. Ages'
    <3>1. \A k \in Places : woken
      BY <2>1, EmptySeq DEF Places
    <3> QED
      BY <1>2, <1>3, <1>4, <2>1, <3>1 DEF Ages
  <2> QED
    BY <2>2, <2>3, <2>4
<1>6. CASE holder # None
  <2> DEFINE n == Len(waiters)
  <2>1. /\ holder' = holder /\ woken' = woken /\ starving' = starving
        /\ waiters' = Append(waiters, i) /\ holder \in Instances \ {i}
    BY <1>1, <1>2, <1>6 DEF MutexTypes
  <2>2. /\ n \in Nat /\ waiters' \in Seq(Instances) /\ waiters' # <<>>
        /\ Len(waiters') = n + 1
        /\ \A k \in 1..n : waiters'[k] = waiters[k]
        /\ waiters'[n + 1] = i
    BY <2>1, AppendProperties, LenProperties DEF MutexTypes
  <2>3. /\ Places = 1..n /\ Places' = 1..(n + 1)
        /\ \A k \in Places' : k \in Places \/ k = n + 1
        /\ \A k \in Places : k \in Places' /\ k # n + 1
        /\ n + 1 \in Places'
    BY <2>2 DEF Places
  <2> HIDE DEF n
  <2>4. MutexTypes'
    <3>1. ASSUME NEW x \in Instances, state'[x] = "locking", holder' # x
          PROVE  \E k \in Places' : waiters'[k] = x
      <4>1. CASE x = i
        BY <4>1, <2>2, <2>3
      <4>2. CASE x # i
        <5>1. PICK k \in Places : waiters[k] = x
          BY <4>2, <3>1, <2>1, <1>2 DEF MutexTypes
        <5>2. k \in Places' /\ waiters'[k] = x
          BY <5>1, <2>2, <2>3
        <5> QED
          BY <5>2
      <4> QED
        BY <4>1, <4>2
    <3>2. \A x \in Instances :
             state'[x] \in {"connecting", "sending"} => holder' = x
      BY <1>2, <2>1 DEF MutexTypes
    <3> QED
      BY <3>1, <3>2, <1>2, <2>1, <2>2 DEF MutexTypes
  <2>5. Queue'
    <3>1. ASSUME NEW k \in Places'
          PROVE  state'[waiters'[k]] = "locking" /\ waiters'[k] # holder'
      <4>1. CASE k \in Places
        <5>1. waiters'[k] = waiters[k]
          BY <4>1, <2>2, <2>3
        <5> QED
          BY <4>1, <5>1, <1>3, <2>1 DEF Queue
      <4>2. CASE k = n + 1
        BY <4>2, <2>1, <2>2, <1>2
      <4> QED
        BY <4>1, <4>2, <2>3
    <3>2. ASSUME NEW j \in Places', NEW k \in Places', waiters'[j] = waiters'[k]
          PROVE  j = k
      <4>1. CASE j \in Places /\ k \in Places
        <5>1. waiters[j] = waiters[k]
          BY <3>2, <4>1, <2>2, <2>3
        <5> QED
          BY <4>1, <5>1 DEF Queue
      <4>2. CASE j \in Places /\ k = n + 1
        BY <3>2, <4>2, <2>2, <2>3, <1>3
      <4>3. CASE j = n + 1 /\ k \in Places
        BY <3>2, <4>3, <2>2, <2>3, <1>3
      <4> QED
        BY <4>1, <4>2, <4>3, <2>3
    <3>3. state'[holder'] \in {"locking", "connecting", "sending"}
      BY <1>2, <1>6, <2>1 DEF Queue
    <3> QED
      BY <3>1, <3>2, <3>3, <1>6, <2>1, <2>2 DEF Queue
  <2>6. Ages'
    <3>1. age'[holder'] = age[holder] /\ age[holder] \in Nat
      BY <2>1, <1>2 DEF Ages
    <3>2. ASSUME NEW k \in Places'
          PROVE  \/ k \in Places /\ age'[waiters'[k]] = age[waiters[k]]
                 \/ k = n + 1 /\ age'[waiters'[k]] = 0
      BY <1>2, <1>3, <2>2, <2>3
    <3>3. ASSUME NEW j \in Places', NEW k \in Places', j <= k
          PROVE  age'[waiters'[k]] <= age'[waiters'[j]]
      <4>1. CASE k \in Places
        <5>1. j \in Places
          BY <3>3, <4>1, <2>2, <2>3
        <5>2. age[waiters[k]] <= age[waiters[j]]
          BY <3>3, <4>1, <5>1 DEF Ages
        <5>3. age'[waiters'[k]] = age[waiters[k]]
              /\ age'[waiters'[j]] = age[waiters[j]]
          BY <4>1, <5>1, <1>3, <2>2, <2>3
        <5> QED
          BY <5>2, <5>3
      <4>2. CASE k = n + 1
        <5>1. age'[waiters'[k]] = 0 /\ age'[waiters'[j]] \in Nat
          BY <4>2, <1>2, <1>3, <2>2, <2>3, <3>2
        <5> QED
          BY <5>1
      <4> QED
        BY <4>1, <4>2, <2>3
    <3>4. holder # None => age[holder] <= 2 * Timeout
      BY DEF Ages
    <3>5. ASSUME NEW k \in Places', ~starving
          PROVE  /\ age'[waiters'[k]] <= Timeout
                 /\ ~woken => age'[waiters'[k]] <= age'[holder']
      BY <3>1, <3>2, <3>5 DEF Ages
    <3>6. ASSUME NEW k \in Places', starving
          PROVE  /\ age'[waiters'[k]] <= 2 * Timeout
                 /\ age'[waiters'[k]] <= age'[holder'] + Timeout
      BY <3>1, <3>2, <3>6 DEF Ages
    <3> QED
      BY <3>1, <3>3, <3>4, <3>5, <3>6, <1>2, <1>4, <1>6, <2>1 DEF Ages
  <2> QED
    BY <2>4, <2>5, <2>6
<1> QED
  BY <1>5, <1>6

LEMMA MutexInit == Init => MutexInv
<1> SUFFICES ASSUME Init
             PROVE  MutexInv
  OBVIOUS
<1>1. waiters = <<>> /\ Places = {} /\ waiters \in Seq(Instances)
  BY DEF Init, Places
<1> QED
  BY <1>1 DEF Init, MutexInv, MutexTypes, Queue, Ages, States

LEMMA MutexStep ==
  MutexInv /\ hung \in [Instances -> Nat] /\ [Next]_vars => MutexInv'
<1> SUFFICES ASSUME MutexInv, hung \in [Instances -> Nat], [Next]_vars
             PROVE  MutexInv'
  OBVIOUS
<1>1. CASE UNCHANGED mutexVars
  <2>1. Places' = Places
    BY <1>1 DEF mutexVars, mutex, Places
  <2> QED
    BY <1>1, <2>1
    DEF mutexVars, mutex, MutexInv, MutexTypes, Queue, Ages
<1> QED
  BY <1>1, StepKinds, AdvanceKeeps, ReturnKeepsMutex, AskKeeps, WakeKeeps,
     TimeKeeps

LEMMA HungInit == Init => hung \in [Instances -> Nat]
  BY DEF Init

LEMMA HungStep == hung \in [Instances -> Nat] /\ [Next]_vars
                     => (hung \in [Instances -> Nat])'
<1> SUFFICES ASSUME hung \in [Instances -> Nat], [Next]_vars
             PROVE  (hung \in [Instances -> Nat])'
  OBVIOUS
<1>1. CASE Tick
  BY <1>1 DEF Tick, Grow
<1>2. ASSUME NEW i \in Instances, NEW stop \in BOOLEAN, OnEvent(i, stop)
      PROVE  hung' \in [Instances -> Nat]
  BY <1>2 DEF OnEvent
<1>3. ASSUME NEW i \in Instances,
             ConnectFails(i) \/ ConnectExpires(i) \/ SendFails(i) \/ Answered(i)
      PROVE  hung' \in [Instances -> Nat]
  BY <1>3 DEF ConnectFails, ConnectExpires, SendFails, Answered, Return
<1>4. ASSUME NEW i \in Instances,
             \/ UseConnection(i) \/ Connects(i) \/ Connect(i) \/ HangsUpOld(i)
             \/ HangsUp(i)
      PROVE  UNCHANGED hung
  BY <1>4 DEF UseConnection, Connects, Connect, HangsUpOld, HangsUp,
              instanceVars
<1>5. ASSUME NEW c \in Dials,
             \/ \E how \in {"open", "failed"} : DialEnds(c, how)
             \/ \E how \in {"dead", "nochannel"} : Breaks(c, how)
             \/ Reap(c) \/ HangsUpLate(c) \/ CloseEnds(c)
      PROVE  UNCHANGED hung
  BY <1>5 DEF DialEnds, Breaks, Reap, HangsUpLate, CloseEnds, instanceVars
<1>6. CASE Wake \/ Cancel \/ HangsUpLast \/ Close \/ Finished \/ UNCHANGED vars
  BY <1>6 DEF Wake, Cancel, HangsUpLast, Close, Finished, vars, instanceVars
<1> QED
  BY <1>1, <1>2, <1>3, <1>4, <1>5, <1>6
  DEF Next, Program, Report, Environment

LEMMA MutexIsKept == Spec => [](MutexInv /\ hung \in [Instances -> Nat])
  BY MutexInit, MutexStep, HungInit, HungStep, PTL DEF Spec

-----------------------------------------------------------------------------
(* Connections                                                             *)

DialStates ==
    {"free", "dialling", "failed", "open", "dead", "nochannel", "closing"}

ConnectionTypes ==
    /\ kind \in Kinds /\ last \in [Instances -> BOOLEAN]
    /\ dial \in [Dials -> DialStates]
    /\ dialAge \in [Dials -> 0..(DialTime + CloseTime)]
    /\ current \in Dials \cup {None} /\ pending \in Dials \cup {None}
    /\ left \subseteq Dials
    /\ cancelled \in BOOLEAN /\ closed \in BOOLEAN

\* There is one attempt to connect at a time, the one of the holder, and the
\* notifier keeps nothing meanwhile. Whoever sends has a connection.
OneAttempt ==
    /\ pending # None =>
          current = None /\ holder # None /\ state[holder] = "connecting"
    /\ \A i \in Instances : state[i] = "connecting" => pending \in Dials
    /\ \A i \in Instances : state[i] = "sending" => current # None

\* A close begins with its time ahead of it, and only rabbitmq's takes any.
Rested ==
    /\ \A c \in Dials :
          /\ dial[c] \in {"open", "nochannel"} => dialAge[c] = 0
          /\ dial[c] = "closing" =>
                kind = "rabbitmq" /\ dialAge[c] <= CloseTime
    /\ current # None => dial[current] # "dialling"

StaysClosed == closed => AllStopped /\ current = None /\ holder = None

ConnectionInv ==
    /\ ConnectionTypes /\ OneAttempt /\ Rested
    /\ NothingLeaks /\ StaysClosed

LEMMA Apart ==
  /\ None \notin Instances /\ None \notin Dials /\ DialTime \in Nat \ {0}
  /\ CloseTime \in Nat \ {0}
  /\ Timeout \in Nat \ {0}
  BY PublisherAssumption

\* Whoever is past the mutex holds it, so that nothing else is being made.
LEMMA HolderOnly ==
  ASSUME MutexInv, ConnectionInv, NEW i \in Instances
  PROVE  /\ state[i] \in {"connecting", "sending"} => holder = i
         /\ holder = i /\ state[i] # "connecting" => pending = None
         /\ state[i] = "connecting" => pending \in Dials /\ current = None
         /\ state[i] # "gone" => ~closed
  BY Apart DEF MutexInv, MutexTypes, ConnectionInv, OneAttempt, StaysClosed,
               AllStopped

\* Publish returns and leaves nothing being made.
LEMMA ReturnLeavesNone ==
  ASSUME MutexInv, ConnectionInv, NEW i \in Instances, Return(i),
         state[i] \in {"connecting", "sending"}, pending' = None
  PROVE  OneAttempt' /\ StaysClosed' /\ ~closed' /\ UNCHANGED <<last, daemon>>
<1>1. holder = i /\ ~closed
  BY HolderOnly
<1>2. /\ \A x \in Instances : state'[x] \notin {"connecting", "sending"}
      /\ UNCHANGED <<last, daemon>>
  BY <1>1 DEF Return, MutexInv, MutexTypes
<1> QED
  BY <1>1, <1>2 DEF OneAttempt, StaysClosed, daemon

LEMMA ConnectionStep ==
  ASSUME MutexInv, ConnectionInv, [Next]_vars
  PROVE  ConnectionInv'
<1> USE Apart
<1>1. CASE Wake
  <2>1. /\ UNCHANGED <<instanceVars, connections, daemon>>
        /\ waiters # <<>> /\ waiters \in Seq(Instances)
    BY <1>1 DEF Wake, MutexInv, MutexTypes, Queue
  <2>2. 1 \in Places /\ waiters[1] \in Instances
    BY <2>1, Handed, MovingUp DEF Places, MutexInv, MutexTypes
  <2>3. state[waiters[1]] = "locking"
    BY <2>2 DEF MutexInv, Queue
  <2>4. ~closed
    BY <2>2, <2>3, HolderOnly
  <2>5. pending # None => holder' = holder
    BY <1>1 DEF Wake, ConnectionInv, OneAttempt
  <2> QED
    BY <2>1, <2>4, <2>5
    DEF instanceVars, connections, daemon, ConnectionInv, ConnectionTypes,
        OneAttempt, Rested, NothingLeaks, StaysClosed
<1>2. ASSUME NEW i \in Instances, NEW stop \in BOOLEAN, OnEvent(i, stop)
      PROVE  ConnectionInv'
  <2>1. /\ state[i] = "idle" /\ state' = [state EXCEPT ![i] = "locking"]
        /\ last' = [last EXCEPT ![i] = stop]
        /\ UNCHANGED <<connections, daemon>>
        /\ holder # None => holder' = holder
    BY <1>2 DEF OnEvent
  <2>2. ~closed /\ i # holder
    BY <2>1, HolderOnly DEF MutexInv, Queue
  <2>3. \A x \in Instances :
           state'[x] = "connecting" <=> state[x] = "connecting"
    BY <2>1 DEF MutexInv, MutexTypes
  <2>4. holder # None => holder \in Instances
    BY DEF MutexInv, MutexTypes
  <2> QED
    BY <2>1, <2>2, <2>3, <2>4
    DEF connections, daemon, ConnectionInv, ConnectionTypes, OneAttempt,
        Rested, NothingLeaks, StaysClosed
<1>3. ASSUME NEW i \in Instances, Connect(i)
      PROVE  ConnectionInv'
  <2>1. /\ holder = i /\ state[i] = "locking" /\ pending = None /\ ~closed
        /\ state' = [state EXCEPT ![i] = "connecting"]
        /\ Free # {} /\ dial' = [Disconnected EXCEPT ![Fresh] = "dialling"]
        /\ current' = None /\ pending' = Fresh
        /\ UNCHANGED <<last, holder, dialAge, left, kind, cancelled, closed>>
    BY <1>3, HolderOnly DEF Connect, mutex, daemon
  <2>5. Fresh \in Dials
    BY <2>1 DEF Fresh, Free
  <2>2. ConnectionTypes'
    BY <2>1, <2>5 DEF ConnectionInv, ConnectionTypes, Disconnected, DialStates
  <2>3. OneAttempt'
    BY <2>1, <2>5 DEF OneAttempt, MutexInv, MutexTypes
  <2>4. NothingLeaks'
    BY <2>1, <2>5 DEF ConnectionInv, ConnectionTypes, Rested, NothingLeaks,
       Disconnected
  <2>6. Rested'
    BY <2>1, <2>5 DEF ConnectionInv, ConnectionTypes, Rested, Disconnected
  <2> QED
    BY <2>1, <2>2, <2>3, <2>4, <2>6 DEF ConnectionInv, StaysClosed
<1>4. ASSUME NEW i \in Instances, UseConnection(i)
      PROVE  ConnectionInv'
  <2>1. /\ holder = i /\ state[i] = "locking" /\ pending = None /\ ~closed
        /\ state' = [state EXCEPT ![i] = "sending"]
        /\ UNCHANGED <<last, mutex, connections, daemon>>
    BY <1>4, HolderOnly DEF UseConnection
  <2>2. \A x \in Instances : state'[x] # "connecting" \/ state[x] = "connecting"
    BY <2>1 DEF MutexInv, MutexTypes
  <2>3. current \in Dials
    BY <1>4 DEF UseConnection, Connected, ConnectionInv, ConnectionTypes
  <2> QED
    BY <2>1, <2>2, <2>3
    DEF mutex, connections, daemon, ConnectionInv, ConnectionTypes, OneAttempt,
        Rested, NothingLeaks, StaysClosed
<1>5. ASSUME NEW i \in Instances, Connects(i)
      PROVE  ConnectionInv'
  <2>1. /\ state[i] = "connecting" /\ pending \in Dials /\ current = None
        /\ ~closed /\ holder = i
        /\ current' = pending /\ pending' = None
        /\ state' = [state EXCEPT ![i] = "sending"]
        /\ UNCHANGED <<last, mutex, dial, dialAge, left, daemon>>
    BY <1>5, HolderOnly DEF Connects
  <2>2. \A x \in Instances :
           /\ state'[x] # "connecting"
           /\ state'[x] = "sending" => current' # None
    BY <2>1 DEF MutexInv, MutexTypes
  <2>3. dial[pending] # "dialling"
    BY <1>5 DEF Connects
  <2> QED
    BY <2>1, <2>2, <2>3
    DEF mutex, daemon, ConnectionInv, ConnectionTypes, OneAttempt,
        Rested, NothingLeaks, StaysClosed
<1>6. ASSUME NEW i \in Instances, ConnectFails(i)
      PROVE  ConnectionInv'
  <2>1. /\ state[i] = "connecting" /\ pending \in Dials
        /\ dial' = [dial EXCEPT ![pending] = "free"] /\ pending' = None
        /\ Return(i) /\ UNCHANGED <<dialAge, current, left>>
    BY <1>6, HolderOnly DEF ConnectFails
  <2> QED
    BY <2>1, ReturnLeavesNone
    DEF daemon, ConnectionInv, ConnectionTypes, DialStates, Rested, NothingLeaks
<1>7. ASSUME NEW i \in Instances, ConnectExpires(i)
      PROVE  ConnectionInv'
  <2>1. /\ state[i] = "connecting" /\ pending \in Dials /\ pending' = None
        /\ Return(i) /\ UNCHANGED current
    BY <1>7, HolderOnly DEF ConnectExpires
  <2>2. OneAttempt' /\ StaysClosed' /\ UNCHANGED <<last, daemon>>
    BY <2>1, ReturnLeavesNone
  <2>3. CASE kind = "rabbitmq"
    <3>1. left' = left \cup {pending} /\ UNCHANGED <<dial, dialAge>>
      BY <1>7, <2>3 DEF ConnectExpires, LeftBehind
    <3> QED
      BY <2>1, <2>2, <3>1
      DEF daemon, ConnectionInv, ConnectionTypes, Rested, NothingLeaks
  <2>4. CASE kind # "rabbitmq"
    <3>1. /\ dial' = [dial EXCEPT ![pending] = "free"]
          /\ dialAge' = [dialAge EXCEPT ![pending] = 0]
          /\ UNCHANGED left
      BY <1>7, <2>4 DEF ConnectExpires
    <3> QED
      BY <2>1, <2>2, <3>1
      DEF daemon, ConnectionInv, ConnectionTypes, DialStates, Rested,
          NothingLeaks
  <2> QED
    BY <2>3, <2>4
<1>8. ASSUME NEW i \in Instances, SendFails(i)
      PROVE  ConnectionInv'
  <2>1. /\ state[i] = "sending" /\ dial' = Disconnected /\ current' = None
        /\ Return(i) /\ UNCHANGED <<dialAge, pending, left>>
    BY <1>8 DEF SendFails
  <2>2. pending = None
    BY <2>1, HolderOnly
  <2> QED
    BY <2>1, <2>2, ReturnLeavesNone
    DEF daemon, ConnectionInv, ConnectionTypes, DialStates, Rested,
        NothingLeaks,
        Disconnected
<1>9. ASSUME NEW i \in Instances, Answered(i)
      PROVE  ConnectionInv'
  <2>1. /\ state[i] = "sending" /\ Return(i) /\ UNCHANGED connections
    BY <1>9 DEF Answered
  <2>2. pending = None
    BY <2>1, HolderOnly
  <2> QED
    BY <2>1, <2>2, ReturnLeavesNone
    DEF daemon, connections, ConnectionInv, ConnectionTypes, Rested,
        NothingLeaks
<1>10. ASSUME NEW c \in Dials, NEW how \in {"open", "failed"}, DialEnds(c, how)
       PROVE  ConnectionInv'
  BY <1>10
  DEF DialEnds, instanceVars, mutex, daemon, ConnectionInv, ConnectionTypes,
      DialStates, OneAttempt, Rested, NothingLeaks, StaysClosed, AllStopped
<1>11. ASSUME NEW c \in Dials, Reap(c) \/ CloseEnds(c)
       PROVE  ConnectionInv'
  BY <1>11
  DEF Reap, CloseEnds, instanceVars, mutex, daemon, ConnectionInv,
      ConnectionTypes,
      DialStates, OneAttempt, Rested, NothingLeaks, StaysClosed, AllStopped
<1>12. ASSUME NEW c \in Dials, NEW how \in {"dead", "nochannel"}, Breaks(c, how)
       PROVE  ConnectionInv'
  BY <1>12
  DEF Breaks, instanceVars, mutex, daemon, ConnectionInv, ConnectionTypes,
      DialStates, OneAttempt, Rested, NothingLeaks, StaysClosed, AllStopped
<1>13. CASE Cancel
  BY <1>13
  DEF Cancel, instanceVars, mutex, connections, ConnectionInv,
      ConnectionTypes, OneAttempt, Rested, NothingLeaks, StaysClosed, AllStopped
<1>14. CASE Close
  BY <1>14
  DEF Close, instanceVars, mutex, ConnectionInv, ConnectionTypes, DialStates,
      Disconnected, OneAttempt, Rested, NothingLeaks, StaysClosed, AllStopped
<1>15. CASE Tick
  <2>1. /\ dialAge' = [c \in Dials |-> IF c \in Shaking THEN dialAge[c] + 1
                                                      ELSE dialAge[c]]
        /\ \A c \in Shaking : dialAge[c] < Longest(c)
        /\ UNCHANGED <<state, last, mutex, dial, current, pending, left>>
        /\ UNCHANGED daemon
    BY <1>15 DEF Tick
  <2>2. /\ dialAge' \in [Dials -> 0..(DialTime + CloseTime)]
        /\ Rested'
    BY <2>1 DEF Shaking, Longest, ConnectionInv, ConnectionTypes, Rested, daemon
  <2> QED
    BY <2>1, <2>2
    DEF mutex, daemon, ConnectionInv, ConnectionTypes, OneAttempt,
        Rested, NothingLeaks, StaysClosed, AllStopped
<1>16. CASE Finished \/ UNCHANGED vars
  BY <1>16
  DEF Finished, vars, instanceVars, mutex, connections, daemon, ConnectionInv,
      ConnectionTypes, OneAttempt, Rested, NothingLeaks, StaysClosed, AllStopped
<1>17. ASSUME NEW c \in Dials, AsksBroker(c), HangUp(c),
              UNCHANGED <<instanceVars, mutex, dialAge, current, pending, left,
                          daemon>>,
              dial[c] # "free"
       PROVE  ConnectionInv'
  BY <1>17
  DEF AsksBroker, HangUp, instanceVars, mutex, daemon, ConnectionInv,
      ConnectionTypes, DialStates, OneAttempt, Rested, NothingLeaks,
      StaysClosed, AllStopped
<1>18. ASSUME NEW i \in Instances, HangsUpOld(i) \/ HangsUp(i)
       PROVE  ConnectionInv'
  <2>1. current \in Dials
    BY <1>18
    DEF HangsUpOld, HangsUp, ConnectionInv, ConnectionTypes, OneAttempt
  <2> QED
    BY <1>17, <1>18, <2>1 DEF HangsUpOld, HangsUp, AsksBroker
<1>19. CASE HangsUpLast \/ \E c \in Dials : HangsUpLate(c)
  BY <1>17, <1>19 DEF HangsUpLast, HangsUpLate, AsksBroker, ConnectionInv,
                      ConnectionTypes
<1> QED
  BY <1>1, <1>2, <1>3, <1>4, <1>5, <1>6, <1>7, <1>8, <1>9, <1>10, <1>11,
     <1>12, <1>13, <1>14, <1>15, <1>16, <1>18, <1>19
  DEF Next, Program, Report, Environment

LEMMA ConnectionInit == Init => ConnectionInv
<1> SUFFICES ASSUME Init
             PROVE  ConnectionInv
  OBVIOUS
<1>1. ConnectionTypes
  <2>1. /\ dial \in [Dials -> DialStates]
        /\ dialAge \in [Dials -> 0..(DialTime + CloseTime)]
    BY Apart DEF Init, DialStates
  <2> QED
    BY <2>1 DEF Init, ConnectionTypes
<1>2. OneAttempt
  BY Apart DEF Init, OneAttempt
<1>3. Rested /\ NothingLeaks /\ StaysClosed
  BY DEF Init, Rested, NothingLeaks, StaysClosed
<1> QED
  BY <1>1, <1>2, <1>3 DEF ConnectionInv

LEMMA ConnectionIsKept == Spec => []ConnectionInv
<1>1. MutexInv /\ ConnectionInv /\ [Next]_vars => ConnectionInv'
  BY ConnectionStep
<1> QED
  BY <1>1, ConnectionInit, MutexIsKept, PTL DEF Spec

-----------------------------------------------------------------------------
(* The closes                                                              *)

\* What closes may still take while the holder has the mutex: that of the
\* connection it has yet to make, and that of the one that is kept.
Again == IF holder # None /\ state[holder] \in {"locking", "connecting"}
         THEN CloseTime ELSE 0
Now == IF current # None /\ dial[current] \in {"open", "nochannel"}
       THEN CloseTime
       ELSE IF current # None /\ dial[current] = "closing"
            THEN CloseTime - dialAge[current] ELSE 0
Ahead == Again + Now
Turn == 2 * CloseTime

Late(k) == hung[waiters[k]] + Turn * k

\* A turn is left for each of those before an instance, for itself, and, until
\* the first one is handed the mutex, for one that overtakes them.
HungInv ==
    /\ \A i \in Instances : state[i] \in {"idle", "gone"} => hung[i] = 0
    /\ kind # "rabbitmq" => \A i \in Instances : hung[i] = 0
    /\ holder # None => hung[holder] + Ahead <= LongestHung
    /\ \A k \in Places :
          /\ woken => Late(k) + Turn <= LongestHung
          /\ ~woken /\ ~starving => Late(k) + Ahead + Turn <= LongestHung
          /\ starving => Late(k) + Ahead <= LongestHung

LEMMA AheadBounds ==
  ASSUME ConnectionInv
  PROVE  /\ Again \in Nat /\ Now \in Nat /\ Ahead \in Nat /\ Turn \in Nat
         /\ Again <= CloseTime /\ Now <= CloseTime /\ Ahead <= Turn
<1> USE Apart
<1>1. Again \in Nat /\ Again <= CloseTime
  BY DEF Again
<1>2. CASE current = None
  BY <1>1, <1>2 DEF Now, Ahead, Turn
<1>3. CASE current # None
  <2>1. /\ current \in Dials /\ dialAge[current] \in Nat
        /\ dial[current] = "closing" => dialAge[current] <= CloseTime
    BY <1>3 DEF ConnectionInv, ConnectionTypes, Rested
  <2> QED
    BY <1>1, <2>1 DEF Now, Ahead, Turn
<1> QED
  BY <1>2, <1>3

\* The same of the state after a step.
LEMMA NextAhead == ConnectionInv' => Ahead' \in Nat /\ Ahead' <= Turn
<1>1. ConnectionInv => Ahead \in Nat /\ Ahead <= Turn
  BY AheadBounds
<1>2. (ConnectionInv => Ahead \in Nat /\ Ahead <= Turn)'
  BY <1>1, PTL
<1>3. Turn' = Turn
  BY DEF Turn
<1> QED
  BY <1>2, <1>3

\* The closes of n turns, and no more of them than there are instances.
LEMMA Turns ==
  /\ Turn \in Nat /\ Cardinality(Instances) \in Nat /\ LongestHung \in Nat
  /\ Turn <= LongestHung
  /\ \A k \in Nat : Turn * k \in Nat /\ Turn * (k + 1) = Turn * k + Turn
  /\ Turn * 1 = Turn
  /\ \A k \in Nat : k + 2 <= Cardinality(Instances) =>
        Turn * (k + 1) + Turn + Turn <= LongestHung
<1>1. CloseTime \in Nat /\ Turn \in Nat /\ Cardinality(Instances) \in Nat
  BY Apart, PublisherAssumption, FS_CardinalityType DEF Turn
<1> DEFINE N == Cardinality(Instances)
<1>2. LongestHung = Turn * (N + 1)
  BY DEF LongestHung, Turn
<1>3. \A a, b, t \in Nat : /\ t * a \in Nat /\ t * (a + 1) = t * a + t
                           /\ t * 1 = t
                           /\ a <= b => t * a <= t * b
  <2> TAKE a, b, t \in Nat
  <2>1. t * a \in Nat /\ t * (a + 1) = t * a + t /\ t * 1 = t
    OBVIOUS
  <2>2. ASSUME a <= b
        PROVE  t * a <= t * b
    <3>1. b - a \in Nat /\ t * (b - a) \in Nat
      BY <2>2
    <3>2. t * b = t * a + t * (b - a)
      OBVIOUS
    <3>3. t * a \in Nat /\ t * b \in Nat
      OBVIOUS
    <3> HIDE DEF N
    <3> QED
      BY <3>1, <3>2, <3>3
  <2> QED
    BY <2>1, <2>2
<1> HIDE DEF N
<1>4. N \in Nat
  BY <1>1 DEF N
<1>5. LongestHung \in Nat /\ Turn <= LongestHung
  <2>1. Turn * 1 <= Turn * (N + 1) /\ Turn * (N + 1) \in Nat /\ Turn * 1 = Turn
    BY <1>1, <1>3, <1>4
  <2> QED
    BY <1>2, <2>1
<1>6. ASSUME NEW k \in Nat, k + 2 <= N
      PROVE  Turn * (k + 1) + Turn + Turn <= LongestHung
  <2>1. Turn * ((k + 1) + 1) = Turn * (k + 1) + Turn
    BY <1>1, <1>3
  <2>2. Turn * ((k + 2) + 1) = Turn * (k + 2) + Turn
    BY <1>1, <1>3
  <2>3. Turn * (k + 3) <= Turn * (N + 1)
    BY <1>1, <1>3, <1>4, <1>6
  <2>4. (k + 1) + 1 = k + 2 /\ (k + 2) + 1 = k + 3
    OBVIOUS
  <2>5. Turn * (k + 3) = (Turn * (k + 1) + Turn) + Turn
    BY <2>1, <2>2, <2>4
  <2> QED
    BY <1>2, <2>3, <2>5
<1> QED
  BY <1>1, <1>3, <1>5, <1>6 DEF N

\* Those that wait, the holder and one that is about to wait are different.
LEMMA RoomToWait ==
  ASSUME NEW q \in Seq(Instances), NEW x \in Instances, NEW y \in Instances,
         x # y, \A k \in 1..Len(q) : q[k] # x /\ q[k] # y,
         \A j, k \in 1..Len(q) : q[j] = q[k] => j = k
  PROVE  Len(q) + 2 <= Cardinality(Instances)
<1> DEFINE n == Len(q)
           f == [k \in 1..(n + 2) |-> IF k <= n THEN q[k]
                                      ELSE IF k = n + 1 THEN x ELSE y]
<1>1. n \in Nat /\ \A k \in 1..n : q[k] \in Instances
  BY LenProperties
<1>2. f \in [1..(n + 2) -> Instances]
  BY <1>1
<1>3. \A j, k \in 1..(n + 2) : f[j] = f[k] => j = k
  <2> TAKE j, k \in 1..(n + 2)
  <2>1. CASE j <= n /\ k <= n
    BY <1>1, <2>1
  <2>2. CASE j <= n /\ ~(k <= n)
    BY <1>1, <2>2
  <2>3. CASE ~(j <= n) /\ k <= n
    BY <1>1, <2>3
  <2>4. CASE ~(j <= n) /\ ~(k <= n)
    <3>1. (j = n + 1 \/ j = n + 2) /\ (k = n + 1 \/ k = n + 2)
      BY <1>1, <2>4
    <3> QED
      BY <1>1, <2>4, <3>1
  <2> QED
    BY <2>1, <2>2, <2>3, <2>4
<1>4. f \in Injection(1..(n + 2), Instances)
  BY <1>2, <1>3 DEF Injection, IsInjective
<1> HIDE DEF f
<1>5. Cardinality(1..(n + 2)) = n + 2
  BY <1>1, FS_Interval
<1>6. Cardinality(1..(n + 2)) <= Cardinality(Instances)
  BY <1>4, FS_Injection, PublisherAssumption
<1> QED
  BY <1>5, <1>6

-----------------------------------------------------------------------------
(* What a step means for the closes                                        *)

\* Nothing that is held changes, and no close is added to those ahead.
Calm ==
    /\ UNCHANGED <<hung, mutex, kind>> /\ Ahead' <= Ahead
    /\ \A i \in Instances :
          state'[i] \in {"idle", "gone"} => state[i] \in {"idle", "gone"}

\* A tick of a close that the holder waits for.
HangingTick ==
    /\ ~woken /\ holder # None /\ kind = "rabbitmq"
    /\ hung' = Grow(hung, Publishing, MaxHung) /\ Ahead' = Ahead - 1
    /\ UNCHANGED <<state, mutex, kind>>

HungReturns ==
    Returns /\ hung' = [hung EXCEPT ![holder] = 0] /\ UNCHANGED kind

HungAsks ==
    \E i \in Instances :
        /\ state[i] = "idle"
        /\ hung' = [hung EXCEPT ![i] = 0]
        /\ state' = [state EXCEPT ![i] = "locking"]
        /\ IF holder = None
           THEN holder' = i /\ UNCHANGED waiters
           ELSE /\ waiters' = Append(waiters, i)
                /\ UNCHANGED holder /\ Ahead' = Ahead
        /\ UNCHANGED <<woken, starving, kind>>

LEMMA HangUpKeeps ==
  ASSUME ConnectionInv, NEW c \in Dials, AsksBroker(c), HangUp(c),
         UNCHANGED <<state, holder, dialAge, current>>
  PROVE  Ahead' = Ahead
<1> USE Apart
<1>1. /\ dial[c] \in {"open", "nochannel"} /\ dialAge[c] = 0
      /\ dial' = [dial EXCEPT ![c] = "closing"] /\ Again' = Again
      /\ dial \in [Dials -> DialStates]
  BY DEF AsksBroker, HangUp, ConnectionInv, ConnectionTypes, Rested, Again
<1>2. Now' = Now
  <2>1. CASE c = current
    BY <1>1, <2>1 DEF Now
  <2>2. CASE c # current
    <3>1. current # None => dial'[current] = dial[current]
      BY <1>1, <2>2
    <3> QED
      BY <3>1 DEF Now
  <2> QED
    BY <2>1, <2>2
<1> QED
  BY <1>1, <1>2 DEF Ahead

LEMMA HungStepKinds ==
  ASSUME MutexInv, ConnectionInv, hung \in [Instances -> Nat], [Next]_vars
  PROVE  \/ Calm \/ HangingTick \/ HungReturns \/ HungAsks
         \/ Wake /\ UNCHANGED <<hung, kind>>
<1> USE Apart
<1>0. /\ state \in [Instances -> States] /\ holder \in Instances \cup {None}
      /\ dial \in [Dials -> DialStates] /\ dialAge \in [Dials -> Nat]
      /\ current \in Dials \cup {None} /\ CloseTime \in Nat
      /\ Again \in Nat /\ Now \in Nat /\ Ahead = Again + Now
  BY AheadBounds
  DEF MutexInv, MutexTypes, ConnectionInv, ConnectionTypes, Ahead
<1>1. ASSUME NEW i \in Instances, UseConnection(i)
      PROVE  Calm
  <2>1. /\ holder = i /\ state[i] = "locking"
        /\ state' = [state EXCEPT ![i] = "sending"]
        /\ UNCHANGED <<hung, mutex, connections, kind>>
    BY <1>1 DEF UseConnection, daemon
  <2>2. Again = CloseTime /\ Again' = 0 /\ Now' = Now
    BY <1>0, <2>1 DEF Again, Now, mutex, connections
  <2>3. Ahead' <= Ahead
    BY <1>0, <2>2 DEF Ahead
  <2> QED
    BY <1>0, <2>1, <2>3 DEF Calm
<1>2. ASSUME NEW i \in Instances, Connects(i)
      PROVE  Calm
  <2>1. /\ holder = i /\ state[i] = "connecting" /\ current = None
        /\ pending \in Dials /\ dial[pending] \in {"open", "dead", "nochannel"}
        /\ state' = [state EXCEPT ![i] = "sending"] /\ current' = pending
        /\ UNCHANGED <<hung, mutex, dial, dialAge, kind>>
    BY <1>2, HolderOnly DEF Connects, daemon
  <2>2. Again = CloseTime /\ Again' = 0 /\ Now = 0
    BY <1>0, <2>1 DEF Again, Now, mutex
  <2>3. Now' \in {0, CloseTime}
    <3>1. current' # None /\ dial'[current'] \in {"open", "dead", "nochannel"}
      BY <2>1
    <3> QED
      BY <3>1 DEF Now
  <2>4. Ahead' <= Ahead
    <3>1. Ahead' = Again' + Now'
      BY DEF Ahead
    <3>2. \A n \in {0, CloseTime} : 0 + n <= CloseTime + 0
      BY <1>0
    <3> QED
      BY <1>0, <2>2, <2>3, <3>1, <3>2
  <2> QED
    BY <1>0, <2>1, <2>4 DEF Calm
<1>3. ASSUME NEW i \in Instances, Connect(i)
      PROVE  Calm
  <2>1. /\ holder = i /\ state[i] = "locking" /\ current' = None
        /\ state' = [state EXCEPT ![i] = "connecting"]
        /\ UNCHANGED <<hung, mutex, kind>>
    BY <1>3 DEF Connect, daemon
  <2>2. Again = CloseTime /\ Again' = CloseTime /\ Now' = 0
    BY <1>0, <2>1 DEF Again, Now, mutex
  <2>3. Ahead' <= Ahead
    BY <1>0, <2>2 DEF Ahead
  <2> QED
    BY <1>0, <2>1, <2>3 DEF Calm
<1>4. ASSUME NEW c \in Dials, AsksBroker(c), HangUp(c),
             UNCHANGED <<instanceVars, mutex, dialAge, current, kind>>
      PROVE  Calm
  <2>1. UNCHANGED <<state, hung, holder, mutex, dialAge, current, kind>>
    BY <1>4 DEF instanceVars, mutex
  <2>2. Ahead' = Ahead
    BY <1>4, <2>1, HangUpKeeps
  <2> QED
    BY <1>0, <2>1, <2>2 DEF Calm
<1>5. ASSUME NEW i \in Instances, HangsUpOld(i) \/ HangsUp(i)
      PROVE  Calm
  <2>1. /\ current \in Dials /\ AsksBroker(current) /\ HangUp(current)
        /\ UNCHANGED <<instanceVars, mutex, dialAge, current, kind>>
    <3>1. AsksBroker(current) /\ HangUp(current)
          /\ UNCHANGED <<instanceVars, mutex, dialAge, current, kind>>
      BY <1>5 DEF HangsUpOld, HangsUp, daemon
    <3>2. state[i] = "sending" => current \in Dials
      BY <1>0 DEF ConnectionInv, ConnectionTypes, OneAttempt
    <3>3. current \in Dials
      BY <1>0, <1>5, <3>2 DEF HangsUpOld, HangsUp
    <3> QED
      BY <3>1, <3>3
  <2> QED
    BY <1>4, <2>1
<1>6. CASE HangsUpLast
  BY <1>0, <1>4, <1>6 DEF HangsUpLast, daemon
<1>7. ASSUME NEW c \in Dials, HangsUpLate(c)
      PROVE  Calm
  BY <1>4, <1>7 DEF HangsUpLate, daemon
<1>8. ASSUME NEW c \in Dials, NEW how \in DialStates, NEW now,
             dial' = [dial EXCEPT ![c] = how],
             \/ dialAge' = [dialAge EXCEPT ![c] = now] \/ UNCHANGED dialAge,
             UNCHANGED <<instanceVars, mutex, current, kind>>,
             \/ how \in {"free", "failed", "dead"}
             \/ c # current
             \/ dial[c] = "open" /\ how = "nochannel"
      PROVE  Calm
  <2>1. UNCHANGED <<state, hung, holder, mutex, current, kind>>
    BY <1>8 DEF instanceVars, mutex
  <2>2. Again' = Again
    BY <2>1 DEF Again
  <2>3. Now' = Now \/ Now' = 0
    <3>1. CASE c # current
      BY <1>0, <1>8, <2>1, <3>1 DEF Now
    <3>2. CASE c = current /\ how \in {"free", "failed", "dead"}
      BY <1>0, <1>8, <2>1, <3>2 DEF Now
    <3>3. CASE c = current /\ dial[c] = "open" /\ how = "nochannel"
      BY <1>0, <1>8, <2>1, <3>3 DEF Now
    <3> QED
      BY <1>8, <3>1, <3>2, <3>3
  <2>4. Ahead' <= Ahead
    BY <1>0, <2>2, <2>3 DEF Ahead
  <2> QED
    BY <2>1, <2>4 DEF Calm
<1>9. ASSUME NEW c \in Dials, NEW how \in {"open", "failed"}, DialEnds(c, how)
      PROVE  Calm
  <2>1. how = "open" => c # current
    BY <1>9 DEF DialEnds, ConnectionInv, Rested
  <2>2. how \in DialStates
    BY DEF DialStates
  <2> QED
    BY <1>8, <1>9, <2>1, <2>2 DEF DialEnds, daemon
<1>10. ASSUME NEW c \in Dials, CloseEnds(c) \/ Reap(c)
       PROVE  Calm
  BY <1>8, <1>10 DEF CloseEnds, Reap, daemon, DialStates
<1>11. ASSUME NEW c \in Dials, NEW how \in {"dead", "nochannel"}, Breaks(c, how)
       PROVE  Calm
  <2>1. how \in DialStates
    BY DEF DialStates
  <2> QED
    BY <1>8, <1>11, <2>1 DEF Breaks, daemon
<1>12. CASE Close
  <2>1. UNCHANGED <<state, hung, holder, mutex, kind>> /\ current' = None
    BY <1>12 DEF Close, instanceVars, mutex
  <2>2. Again' = Again /\ Now' = 0
    BY <2>1 DEF Again, Now
  <2>3. Ahead' <= Ahead
    BY <1>0, <2>2 DEF Ahead
  <2> QED
    BY <2>1, <2>3 DEF Calm
<1>13. CASE Cancel \/ Finished \/ UNCHANGED vars
  <2>1. UNCHANGED <<state, hung, holder, mutex, dial, dialAge, current, kind>>
    BY <1>13
    DEF Cancel, Finished, vars, instanceVars, mutex, connections, daemon
  <2>2. Ahead' = Ahead
    BY <2>1 DEF Ahead, Again, Now
  <2> QED
    BY <1>0, <2>1, <2>2 DEF Calm
<1>14. CASE Tick
  <2>1. /\ UNCHANGED <<state, mutex, dial, current, kind>> /\ holder' = holder
        /\ dialAge' = [c \in Dials |-> IF c \in Shaking THEN dialAge[c] + 1
                                                      ELSE dialAge[c]]
    BY <1>14 DEF Tick, daemon, mutex
  <2>2. Again' = Again
    BY <2>1 DEF Again
  <2>3. CASE Hanging
    <3>1. hung' = Grow(hung, Publishing, MaxHung) /\ ~woken
      BY <1>14, <2>3 DEF Tick, Urgent
    <3>2. /\ holder # None /\ current \in Dials /\ dial[current] = "closing"
          /\ kind = "rabbitmq"
      BY <1>0, <2>3 DEF Hanging, ConnectionInv, Rested
    <3>3. dialAge'[current] = dialAge[current] + 1 /\ dialAge[current] \in Nat
      BY <1>0, <2>1, <3>2 DEF Shaking
    <3>4. Now = CloseTime - dialAge[current]
          /\ Now' = CloseTime - dialAge'[current]
      BY <2>1, <3>2 DEF Now
    <3>5. Ahead' = Ahead - 1
      BY <1>0, <2>2, <3>3, <3>4 DEF Ahead
    <3> QED
      BY <2>1, <3>1, <3>2, <3>5 DEF HangingTick
  <2>4. CASE ~Hanging
    <3>1. UNCHANGED hung
      BY <1>14, <2>4 DEF Tick
    <3>2. Now' <= Now
      <4>1. CASE current = None
        BY <1>0, <2>1, <4>1 DEF Now
      <4>2. CASE current # None
        <5>1. /\ dialAge'[current] \in {dialAge[current], dialAge[current] + 1}
              /\ dialAge[current] \in Nat
          BY <1>0, <2>1, <4>2
        <5> QED
          BY <1>0, <2>1, <5>1 DEF Now
      <4> QED
        BY <4>1, <4>2
    <3>3. Now' \in Int
      <4>1. current # None => dialAge'[current] \in Int
        BY <1>0, <2>1
      <4> QED
        BY <1>0, <2>1, <4>1 DEF Now
    <3>4. Ahead' <= Ahead
      <4>1. Ahead' = Again' + Now'
        BY DEF Ahead
      <4>2. Again \in Int /\ Now \in Int
        BY <1>0
      <4>3. Again + Now' <= Again + Now
        <5>1. \A a, m, n \in Int : m <= n => a + m <= a + n
          OBVIOUS
        <5> QED
          BY <3>2, <3>3, <4>2, <5>1
      <4> QED
        BY <1>0, <2>2, <4>1, <4>3
    <3> QED
      BY <2>1, <3>1, <3>4 DEF Calm
  <2> QED
    BY <2>3, <2>4
<1>15. ASSUME NEW i \in Instances,
              \/ ConnectFails(i) \/ ConnectExpires(i)
              \/ SendFails(i) \/ Answered(i)
       PROVE  HungReturns
  <2>1. Return(i) /\ state[i] \in {"connecting", "sending"}
    BY <1>15 DEF ConnectFails, ConnectExpires, SendFails, Answered
  <2>2. holder = i
    BY <2>1, HolderOnly
  <2> QED
    BY <2>1, <2>2 DEF Return, HungReturns, Returns, daemon
<1>16. ASSUME NEW i \in Instances, NEW stop \in BOOLEAN, OnEvent(i, stop)
       PROVE  HungAsks
  <2>1. /\ state[i] = "idle" /\ hung' = [hung EXCEPT ![i] = 0]
        /\ state' = [state EXCEPT ![i] = "locking"]
        /\ IF holder = None THEN holder' = i /\ UNCHANGED waiters
                            ELSE /\ waiters' = Append(waiters, i)
                                 /\ UNCHANGED holder
        /\ UNCHANGED <<woken, starving, connections, kind>>
    BY <1>16 DEF OnEvent, daemon
  <2>2. ASSUME holder # None
        PROVE  Ahead' = Ahead
    <3>1. holder' = holder /\ holder # i /\ state'[holder] = state[holder]
      BY <1>0, <2>1, <2>2 DEF MutexInv, Queue
    <3> QED
      BY <2>1, <3>1 DEF Ahead, Again, Now, connections
  <2> QED
    BY <2>1, <2>2 DEF HungAsks
<1>17. CASE Wake
  BY <1>17 DEF Wake, instanceVars, daemon
<1> QED
  BY <1>1, <1>2, <1>3, <1>5, <1>6, <1>7, <1>9, <1>10, <1>11, <1>12, <1>13,
     <1>14, <1>15, <1>16, <1>17
  DEF Next, Program, Report, Environment

LEMMA LateTypes ==
  ASSUME MutexInv, hung \in [Instances -> Nat]
  PROVE  /\ \A k \in Places : /\ k \in Nat /\ waiters[k] \in Instances
                              /\ hung[waiters[k]] \in Nat /\ Turn * k \in Nat
                              /\ Late(k) \in Nat
         /\ holder # None => holder \in Instances /\ hung[holder] \in Nat
<1>1. \A k \in Places : k \in Nat /\ waiters[k] \in Instances
  BY DEF MutexInv, MutexTypes, Places
<1>2. \A k \in Nat : Turn * k \in Nat
  BY Turns
<1>3. holder # None => holder \in Instances
  BY DEF MutexInv, MutexTypes
<1>4. ASSUME NEW k \in Places
      PROVE  hung[waiters[k]] + Turn * k \in Nat
  <2> DEFINE t == Turn * k
  <2>1. t \in Nat
    BY <1>1, <1>2
  <2>2. hung[waiters[k]] \in Nat
    BY <1>1
  <2> HIDE DEF t
  <2>3. hung[waiters[k]] + t \in Nat
    BY <2>1, <2>2
  <2> QED
    BY <2>3 DEF t
<1> QED
  BY <1>1, <1>2, <1>3, <1>4 DEF Late

LEMMA CalmKeeps ==
  ASSUME MutexInv, ConnectionInv, ConnectionInv', hung \in [Instances -> Nat],
         HungInv, Calm
  PROVE  HungInv'
<1>1. /\ UNCHANGED <<hung, holder, waiters, woken, starving, kind>>
      /\ Places' = Places /\ Ahead' <= Ahead
      /\ \A k \in Places : Late(k)' = Late(k)
  BY DEF Calm, mutex, Places, Late
<1>2. Ahead \in Nat /\ Ahead' \in Nat /\ Turn \in Nat /\ LongestHung \in Nat
  BY AheadBounds, NextAhead, Turns
<1>3. holder' # None => hung'[holder'] + Ahead' <= LongestHung
  BY <1>1, <1>2, LateTypes DEF HungInv
<1>4. ASSUME NEW k \in Places
      PROVE  /\ woken' => Late(k)' + Turn <= LongestHung
             /\ ~woken' /\ ~starving' => Late(k)' + Ahead' + Turn <= LongestHung
             /\ starving' => Late(k)' + Ahead' <= LongestHung
  <2>1. Late(k) \in Nat
    BY LateTypes
  <2>2. /\ woken => Late(k) + Turn <= LongestHung
        /\ ~woken /\ ~starving => Late(k) + Ahead + Turn <= LongestHung
        /\ starving => Late(k) + Ahead <= LongestHung
    BY DEF HungInv
  <2>3. Late(k)' = Late(k)
    BY <1>1
  <2> QED
    BY <1>1, <1>2, <2>1, <2>2, <2>3
<1>5. \A i \in Instances : state'[i] \in {"idle", "gone"} => hung'[i] = 0
  BY <1>1 DEF Calm, HungInv
<1>6. kind' # "rabbitmq" => \A i \in Instances : hung'[i] = 0
  BY <1>1 DEF HungInv
<1>7. \A k \in Places' :
         /\ woken' => Late(k)' + Turn <= LongestHung
         /\ ~woken' /\ ~starving' => Late(k)' + Ahead' + Turn <= LongestHung
         /\ starving' => Late(k)' + Ahead' <= LongestHung
  BY <1>1, <1>4
<1> QED
  BY <1>3, <1>5, <1>6, <1>7 DEF HungInv, LongestHung, Turn

LEMMA HangingKeeps ==
  ASSUME MutexInv, ConnectionInv, hung \in [Instances -> Nat], HungInv,
         HangingTick
  PROVE  HungInv'
<1>1. /\ UNCHANGED <<state, holder, waiters, woken, starving, kind>>
      /\ ~woken /\ holder # None /\ kind = "rabbitmq"
      /\ Places' = Places /\ Ahead' = Ahead - 1
  BY DEF HangingTick, mutex, Places
<1>2. Ahead \in Nat /\ Turn \in Nat /\ LongestHung \in Nat
  BY AheadBounds, Turns
<1>3. \A i \in Instances : /\ hung'[i] \in Nat /\ hung'[i] <= hung[i] + 1
                           /\ i \notin Publishing => hung'[i] = hung[i]
  BY DEF HangingTick, Grow
<1>4. hung'[holder] + Ahead' <= LongestHung
  BY <1>1, <1>2, <1>3, LateTypes DEF HungInv
<1>5. ASSUME NEW k \in Places
      PROVE  /\ ~starving => Late(k)' + Ahead' + Turn <= LongestHung
             /\ starving => Late(k)' + Ahead' <= LongestHung
  <2>1. /\ waiters[k] \in Instances /\ hung[waiters[k]] \in Nat
        /\ Turn * k \in Nat
    BY LateTypes
  <2>2. /\ ~starving => hung[waiters[k]] + Turn * k + Ahead + Turn
                          <= LongestHung
        /\ starving => hung[waiters[k]] + Turn * k + Ahead <= LongestHung
    BY <1>1 DEF HungInv, Late
  <2>3. Late(k)' = hung'[waiters[k]] + Turn * k
    BY <1>1 DEF Late, Turn
  <2>4. hung'[waiters[k]] \in Nat /\ hung'[waiters[k]] <= hung[waiters[k]] + 1
    BY <1>3, <2>1
  <2> DEFINE t == Turn * k
  <2> HIDE DEF t
  <2>5. t \in Nat
    BY <2>1 DEF t
  <2>6. Late(k)' = hung'[waiters[k]] + t
    BY <2>3 DEF t
  <2>7. /\ ~starving => hung[waiters[k]] + t + Ahead + Turn <= LongestHung
        /\ starving => hung[waiters[k]] + t + Ahead <= LongestHung
    BY <2>2 DEF t
  <2> QED
    BY <1>1, <1>2, <2>1, <2>4, <2>5, <2>6, <2>7
<1>6. \A i \in Instances : state'[i] \in {"idle", "gone"} => hung'[i] = 0
  BY <1>1, <1>3 DEF HungInv, Publishing
<1>7. \A k \in Places' :
         /\ woken' => Late(k)' + Turn <= LongestHung
         /\ ~woken' /\ ~starving' => Late(k)' + Ahead' + Turn <= LongestHung
         /\ starving' => Late(k)' + Ahead' <= LongestHung
  BY <1>1, <1>5
<1> QED
  BY <1>1, <1>4, <1>6, <1>7 DEF HungInv, LongestHung, Turn

\* The first one that waits moves to the mutex, and the others move up.
LEMMA MovedUp ==
  ASSUME MutexInv, hung \in [Instances -> Nat], waiters # <<>>,
         waiters' = Tail(waiters), \A k \in Places :
            hung'[waiters[k]] = hung[waiters[k]]
  PROVE  /\ 1 \in Places /\ Head(waiters) = waiters[1]
         /\ Late(1) = hung'[waiters[1]] + Turn
         /\ \A k \in Places' : k + 1 \in Places /\ Late(k + 1) = Late(k)' + Turn
         /\ \A k \in Places' : Late(k)' \in Nat
<1>1. /\ 1 \in Places /\ Head(waiters) = waiters[1]
      /\ \A k \in Places' : /\ k \in Places /\ k + 1 \in Places
                            /\ waiters'[k] = waiters[k + 1]
  BY Handed DEF MutexInv
<1>2. Turn \in Nat /\ Turn * 1 = Turn
      /\ \A k \in Nat : Turn * k \in Nat /\ Turn * (k + 1) = Turn * k + Turn
  BY Turns
<1>3. ASSUME NEW k \in Places'
      PROVE  Late(k + 1) = Late(k)' + Turn /\ Late(k)' \in Nat
  <2>1. /\ k \in Nat /\ hung'[waiters'[k]] = hung[waiters[k + 1]]
        /\ hung[waiters[k + 1]] \in Nat
    BY <1>1, <1>3, LateTypes
  <2>2. Late(k)' = hung'[waiters'[k]] + Turn * k
    BY DEF Late, Turn
  <2>3. Late(k + 1) = hung[waiters[k + 1]] + Turn * (k + 1)
    BY DEF Late
  <2>4. Turn * k \in Nat /\ Turn * (k + 1) = Turn * k + Turn
    BY <1>2, <2>1
  <2> QED
    BY <1>2, <2>1, <2>2, <2>3, <2>4
<1> QED
  BY <1>1, <1>2, <1>3 DEF Late

LEMMA HungReturnKeeps ==
  ASSUME MutexInv, ConnectionInv, ConnectionInv', hung \in [Instances -> Nat],
         HungInv, HungReturns
  PROVE  HungInv'
<1>1. /\ holder \in Instances /\ hung' = [hung EXCEPT ![holder] = 0]
      /\ Unlock /\ kind' = kind
      /\ \E s \in {"idle", "gone"} : state' = [state EXCEPT ![holder] = s]
  BY Apart DEF HungReturns, Returns, MutexInv, MutexTypes
<1>2. /\ Ahead \in Nat /\ Turn \in Nat /\ LongestHung \in Nat
      /\ Ahead' \in Nat /\ Ahead' <= Turn
  BY AheadBounds, NextAhead, Turns
<1>3. \A k \in Places : hung'[waiters[k]] = hung[waiters[k]]
  BY <1>1, LateTypes DEF MutexInv, Queue
<1>4. \A i \in Instances : state'[i] \in {"idle", "gone"} => hung'[i] = 0
  BY <1>1 DEF HungInv, MutexInv, MutexTypes
<1>5. kind' # "rabbitmq" => \A i \in Instances : hung'[i] = 0
  BY <1>1 DEF HungInv
<1>6. CASE starving
  <2>1. /\ waiters # <<>> /\ ~woken /\ woken' = woken
        /\ holder' = Head(waiters) /\ waiters' = Tail(waiters)
        /\ starving' = (Len(waiters) > 1)
    BY <1>1, <1>6 DEF Unlock, MutexInv, Queue
  <2>2. /\ 1 \in Places /\ holder' = waiters[1]
        /\ Late(1) = hung'[holder'] + Turn /\ hung'[holder'] \in Nat
        /\ \A k \in Places' : /\ k + 1 \in Places /\ Late(k)' \in Nat
                              /\ Late(k + 1) = Late(k)' + Turn
    BY <1>3, <2>1, MovedUp, LateTypes
  <2>3. hung'[holder'] + Ahead' <= LongestHung
    <3>1. Late(1) + Ahead <= LongestHung
      BY <1>6, <2>2 DEF HungInv
    <3> QED
      BY <1>2, <2>2, <3>1
  <2>4. ASSUME NEW k \in Places'
        PROVE  starving' /\ Late(k)' + Ahead' <= LongestHung
    <3>1. Late(k + 1) + Ahead <= LongestHung
      BY <1>6, <2>2 DEF HungInv
    <3>2. starving'
      BY <2>1, Handed, EmptySeq DEF MutexInv, Places
    <3> QED
      BY <1>2, <2>2, <3>1, <3>2
  <2>5. ~woken'
    BY <2>1
  <2> QED
    BY <1>4, <1>5, <2>3, <2>4, <2>5 DEF HungInv, LongestHung, Turn
<1>7. CASE ~starving
  <2>1. /\ holder' = None /\ woken' = (waiters # <<>>)
        /\ waiters' = waiters /\ ~starving' /\ Places' = Places
    BY <1>1, <1>7 DEF Unlock, Places
  <2>2. ASSUME NEW k \in Places
        PROVE  woken' /\ Late(k)' + Turn <= LongestHung
    <3>1. waiters # <<>>
      BY EmptySeq DEF Places
    <3>2. Late(k)' = Late(k) /\ Late(k) \in Nat
      BY <1>3, <2>1, LateTypes DEF Late, Turn
    <3>3. Late(k) + Turn <= LongestHung
      BY <1>2, <1>7, <3>2 DEF HungInv
    <3> QED
      BY <2>1, <3>1, <3>2, <3>3
  <2> QED
    BY <1>4, <1>5, <2>1, <2>2 DEF HungInv, LongestHung, Turn
<1> QED
  BY <1>6, <1>7

LEMMA HungWakeKeeps ==
  ASSUME MutexInv, ConnectionInv, ConnectionInv', hung \in [Instances -> Nat],
         HungInv, Wake, UNCHANGED <<hung, kind>>
  PROVE  HungInv'
<1>1. /\ woken /\ ~woken' /\ state' = state /\ hung' = hung /\ kind' = kind
      /\ ~starving /\ waiters # <<>>
  BY DEF Wake, MutexInv, Queue, instanceVars
<1>2. /\ Turn \in Nat /\ LongestHung \in Nat
      /\ Ahead' \in Nat /\ Ahead' <= Turn
  BY AheadBounds, NextAhead, Turns
<1>3. /\ \A i \in Instances : state'[i] \in {"idle", "gone"} => hung'[i] = 0
      /\ kind' # "rabbitmq" => \A i \in Instances : hung'[i] = 0
  BY <1>1 DEF HungInv
<1>4. CASE holder = None
  <2>1. /\ holder' = Head(waiters) /\ waiters' = Tail(waiters)
        /\ ~starving'
    BY <1>1, <1>4 DEF Wake
  <2>2. /\ 1 \in Places /\ holder' = waiters[1]
        /\ Late(1) = hung'[holder'] + Turn /\ hung'[holder'] \in Nat
        /\ \A k \in Places' : /\ k + 1 \in Places /\ Late(k)' \in Nat
                              /\ Late(k + 1) = Late(k)' + Turn
    BY <1>1, <2>1, MovedUp, LateTypes
  <2>3. hung'[holder'] + Ahead' <= LongestHung
    <3>1. Late(1) + Turn <= LongestHung
      BY <1>1, <2>2 DEF HungInv
    <3> QED
      BY <1>2, <2>2, <3>1
  <2>4. ASSUME NEW k \in Places'
        PROVE  Late(k)' + Ahead' + Turn <= LongestHung
    <3>1. Late(k + 1) + Turn <= LongestHung
      BY <1>1, <2>2 DEF HungInv
    <3> QED
      BY <1>2, <2>2, <3>1
  <2> QED
    BY <1>1, <1>3, <2>1, <2>3, <2>4 DEF HungInv, LongestHung, Turn
<1>5. CASE holder # None
  <2>1. /\ starving' /\ holder' = holder /\ waiters' = waiters
        /\ Places' = Places /\ UNCHANGED <<dial, dialAge, current>>
    BY <1>1, <1>5 DEF Wake, Places, connections
  <2>2. Ahead' = Ahead
    BY <1>1, <2>1 DEF Ahead, Again, Now
  <2>3. hung'[holder'] + Ahead' <= LongestHung
    BY <1>1, <1>5, <2>1, <2>2 DEF HungInv
  <2>4. ASSUME NEW k \in Places
        PROVE  Late(k)' + Ahead' <= LongestHung
    <3>1. Late(k)' = Late(k) /\ Late(k) \in Nat
      BY <1>1, <2>1, LateTypes DEF Late, Turn
    <3>2. Late(k) + Turn <= LongestHung
      BY <1>1 DEF HungInv
    <3> QED
      BY <1>2, <3>1, <3>2
  <2> QED
    BY <1>1, <1>3, <2>1, <2>3, <2>4 DEF HungInv, LongestHung, Turn
<1> QED
  BY <1>4, <1>5

LEMMA HungAskKeeps ==
  ASSUME MutexInv, ConnectionInv, ConnectionInv', hung \in [Instances -> Nat],
         HungInv, HungAsks
  PROVE  HungInv'
<1>1. PICK i \in Instances :
         /\ state[i] = "idle"
         /\ hung' = [hung EXCEPT ![i] = 0]
         /\ state' = [state EXCEPT ![i] = "locking"]
         /\ IF holder = None
            THEN holder' = i /\ UNCHANGED waiters
            ELSE /\ waiters' = Append(waiters, i)
                 /\ UNCHANGED holder /\ Ahead' = Ahead
         /\ UNCHANGED <<woken, starving, kind>>
  BY DEF HungAsks
<1>2. hung' = hung /\ hung[i] = 0
  BY <1>1 DEF HungInv
<1>3. /\ Ahead \in Nat /\ Turn \in Nat /\ LongestHung \in Nat
      /\ Ahead' \in Nat /\ Ahead' <= Turn /\ Ahead <= Turn
      /\ Turn <= LongestHung
  BY AheadBounds, NextAhead, Turns
<1>4. /\ \A x \in Instances : state'[x] \in {"idle", "gone"} => hung'[x] = 0
      /\ kind' # "rabbitmq" => \A x \in Instances : hung'[x] = 0
  BY <1>1, <1>2 DEF HungInv, MutexInv, MutexTypes
<1>5. CASE holder = None
  <2>1. holder' = i /\ Places' = Places /\ waiters' = waiters /\ ~starving
        /\ woken' = woken /\ starving' = starving
    BY <1>1, <1>5 DEF Places, MutexInv, Queue
  <2>2. hung'[holder'] + Ahead' <= LongestHung
    <3>1. hung'[holder'] = 0
      BY <1>2, <2>1
    <3>2. \A a, t, l \in Nat : a <= t /\ t <= l => 0 + a <= l
      OBVIOUS
    <3>3. 0 + Ahead' <= LongestHung
      BY <1>3, <3>2
    <3> QED
      BY <3>1, <3>3
  <2>3. ASSUME NEW k \in Places
        PROVE  woken /\ Late(k)' + Turn <= LongestHung
    <3>1. woken
      BY <1>5, EmptySeq DEF Places, MutexInv, Queue
    <3>2. Late(k)' = Late(k)
      BY <1>2, <2>1 DEF Late, Turn
    <3> QED
      BY <3>1, <3>2 DEF HungInv
  <2> QED
    BY <1>4, <2>1, <2>2, <2>3 DEF HungInv, LongestHung, Turn
<1>6. CASE holder # None
  <2> DEFINE n == Len(waiters)
  <2>1. /\ holder' = holder /\ woken' = woken /\ starving' = starving
        /\ waiters' = Append(waiters, i) /\ Ahead' = Ahead
        /\ holder \in Instances /\ holder # i
    BY <1>1, <1>6 DEF MutexInv, MutexTypes, Queue
  <2>2. /\ n \in Nat /\ Places = 1..n /\ Places' = 1..(n + 1)
        /\ \A k \in 1..n : waiters'[k] = waiters[k]
        /\ waiters'[n + 1] = i
    BY <2>1, AppendProperties, LenProperties DEF Places, MutexInv, MutexTypes
  <2>3. n + 2 <= Cardinality(Instances)
    <3>1. \A k \in 1..n : waiters[k] # holder /\ waiters[k] # i
      BY <1>1, <2>2 DEF MutexInv, Queue
    <3>2. \A j, k \in 1..n : waiters[j] = waiters[k] => j = k
      BY <2>2 DEF MutexInv, Queue
    <3>3. waiters \in Seq(Instances)
      BY DEF MutexInv, MutexTypes
    <3> QED
      BY <2>1, <3>1, <3>2, <3>3, RoomToWait
  <2>4. hung'[holder'] + Ahead' <= LongestHung
    BY <1>2, <1>6, <2>1 DEF HungInv
  <2> HIDE DEF n
  <2>5. ASSUME NEW k \in Places'
        PROVE  /\ woken' => Late(k)' + Turn <= LongestHung
               /\ ~woken' /\ ~starving' => Late(k)' + Ahead' + Turn
                                             <= LongestHung
               /\ starving' => Late(k)' + Ahead' <= LongestHung
    <3>1. CASE k \in Places
      <4>1. waiters'[k] = waiters[k]
        BY <2>2, <3>1
      <4>2. Late(k)' = Late(k)
        BY <1>2, <4>1 DEF Late, Turn
      <4> QED
        BY <2>1, <3>1, <4>2 DEF HungInv
    <3>2. CASE k = n + 1
      <4>1. Late(k)' = 0 + Turn * (n + 1)
        BY <1>2, <2>2, <3>2 DEF Late, Turn
      <4>2. /\ Turn * (n + 1) + Turn + Turn <= LongestHung
            /\ Turn * (n + 1) \in Nat
        <5>1. n + 1 \in Nat
          BY <2>2
        <5> QED
          BY <2>2, <2>3, <5>1, Turns
      <4> DEFINE t == Turn * (n + 1)
      <4>3. Late(k)' = t /\ t + Turn + Turn <= LongestHung /\ t \in Nat
        BY <4>1, <4>2
      <4> HIDE DEF t
      <4> QED
        BY <1>3, <2>1, <4>3
    <3> QED
      BY <2>2, <3>1, <3>2
  <2> QED
    BY <1>4, <2>4, <2>5 DEF HungInv, LongestHung, Turn
<1> QED
  BY <1>5, <1>6

LEMMA HungIsKept == Spec => []HungInv
<1>1. Init => HungInv
  <2> SUFFICES ASSUME Init
               PROVE  HungInv
    OBVIOUS
  <2>1. waiters = <<>> /\ Places = {}
    BY DEF Init, Places
  <2> QED
    BY <2>1 DEF Init, HungInv
<1>2. MutexInv /\ hung \in [Instances -> Nat] /\ ConnectionInv /\ HungInv
      /\ ConnectionInv' /\ [Next]_vars => HungInv'
  BY HungStepKinds, CalmKeeps, HangingKeeps, HungReturnKeeps, HungAskKeeps,
     HungWakeKeeps
<1> QED
  BY <1>1, <1>2, MutexIsKept, ConnectionIsKept, PTL DEF Spec

-----------------------------------------------------------------------------
(* The theorems                                                            *)

\* HeldBriefly: whatever the number of instances and the times, nobody who
\* publishes is held for more than twice the timeout, be it by the broker or by
\* the others that share the notifier, and, with rabbitmq, by two closes of
\* each instance and of one that overtakes it.
THEOREM NobodyIsHeldLong == Spec => []HeldBriefly
<1>1. MutexInv /\ hung \in [Instances -> Nat] /\ ConnectionInv /\ HungInv
        => HeldBriefly
  <2> SUFFICES ASSUME MutexInv, hung \in [Instances -> Nat], ConnectionInv,
                      HungInv, NEW i \in Instances
               PROVE  /\ age[i] <= 2 * Timeout
                      /\ hung[i] <= LongestHung
                      /\ kind # "rabbitmq" => hung[i] <= 0
    BY DEF HeldBriefly
  <2>1. age[i] \in Nat /\ Timeout \in Nat /\ hung[i] \in Nat
    BY TimeIsPositive DEF MutexInv, Ages
  <2>2. Ahead \in Nat /\ Turn \in Nat /\ LongestHung \in Nat
    BY AheadBounds, Turns
  <2>3. kind # "rabbitmq" => hung[i] <= 0
    BY <2>1 DEF HungInv
  <2>4. CASE state[i] \in {"idle", "gone"}
    <3>1. age[i] = 0 /\ hung[i] = 0
      BY <2>4 DEF MutexInv, Ages, HungInv
    <3> QED
      BY <2>1, <2>2, <2>3, <3>1
  <2>5. CASE holder = i
    <3>1. age[i] <= 2 * Timeout
      BY <2>5, TimeIsPositive DEF MutexInv, Ages
    <3>2. hung[i] + Ahead <= LongestHung
      BY <2>5, TimeIsPositive DEF HungInv
    <3> QED
      BY <2>1, <2>2, <2>3, <3>1, <3>2
  <2>6. ASSUME NEW k \in Places, waiters[k] = i
        PROVE  age[i] <= 2 * Timeout /\ hung[i] <= LongestHung
    <3>1. age[i] <= 2 * Timeout
      BY <2>1, <2>6 DEF MutexInv, Ages
    <3>2. Late(k) <= LongestHung /\ Turn * k \in Nat
      <4>1. Late(k) \in Nat /\ Turn * k \in Nat
        BY LateTypes
      <4>2. Late(k) + Turn <= LongestHung \/ Late(k) + Ahead <= LongestHung
        BY <2>2, <4>1 DEF HungInv
      <4> QED
        BY <2>2, <4>1, <4>2
    <3>3. Late(k) = hung[i] + Turn * k
      BY <2>6 DEF Late
    <3> QED
      BY <2>1, <2>2, <3>1, <3>2, <3>3
  <2> QED
    BY <2>3, <2>4, <2>5, <2>6 DEF MutexInv, MutexTypes, States
<1> QED
  BY <1>1, MutexIsKept, ConnectionIsKept, HungIsKept, PTL

\* TypeOK: the variables have their types, only the holder of the mutex uses
\* the connection, and whoever asks for it holds it or waits for it.
THEOREM PublisherTypeOK == Spec => []TypeOK
<1>1. MutexInv /\ hung \in [Instances -> Nat] /\ ConnectionInv /\ HeldBriefly
        => TypeOK
  <2> SUFFICES ASSUME MutexInv, hung \in [Instances -> Nat], ConnectionInv,
                      HeldBriefly
               PROVE  TypeOK
    OBVIOUS
  <2>1. age \in [Instances -> 0..MaxAge] /\ hung \in [Instances -> 0..MaxHung]
    BY Apart, Turns DEF MutexInv, Ages, HeldBriefly, MaxAge, MaxHung
  <2>2. DOMAIN waiters = Places
    BY DEF MutexInv, MutexTypes, Places
  <2>3. /\ kind \in Kinds /\ last \in [Instances -> BOOLEAN]
        /\ dial \in [Dials -> {"free", "dialling", "failed", "open", "dead",
                               "nochannel", "closing"}]
        /\ dialAge \in [Dials -> 0..(DialTime + CloseTime)]
        /\ current \in Dials \cup {None} /\ pending \in Dials \cup {None}
        /\ left \subseteq Dials
        /\ cancelled \in BOOLEAN /\ closed \in BOOLEAN
    BY DEF ConnectionInv, ConnectionTypes, DialStates
  <2> QED
    BY <2>1, <2>2, <2>3 DEF MutexInv, MutexTypes, States, TypeOK
<1> QED
  BY <1>1, MutexIsKept, ConnectionIsKept, NobodyIsHeldLong, PTL

\* NothingLeaks: a connection is kept, being made, or left to a goroutine that
\* closes it, in whatever order attempts complete and are given up.
THEOREM NoConnectionLeaks == Spec => []NothingLeaks
<1>1. ConnectionInv => NothingLeaks
  BY DEF ConnectionInv
<1> QED
  BY <1>1, ConnectionIsKept, PTL

\* ClosedLast: when the notifier is closed nobody publishes, and nobody will.
THEOREM CloseComesLast == Spec => []ClosedLast
<1>1. ConnectionInv => ClosedLast
  BY DEF ConnectionInv, StaysClosed, AllStopped, ClosedLast, Publishing
<1> QED
  BY <1>1, ConnectionIsKept, PTL

=============================================================================
