----------------------------- MODULE Publisher -----------------------------
(***************************************************************************)
(* One notifier of type mqtt or rabbitmq, shared by the instances of a     *)
(* daemon: plugins/notifiers/mqtt/mqtt.go and rabbitmq/rabbitmq.go, called *)
(* by the hook of each instance. A publication has a deadline from before  *)
(* it waits for the mutex, which itself does not look at it; it connects   *)
(* if it has to and waits for the broker, until it is confirmed or the     *)
(* deadline has passed. A connection that completes later is closed by the *)
(* goroutine left behind. rabbitmq closes a connection with a handshake    *)
(* that does not look at the deadline either (conn.Close), mqtt at once.   *)
(* After the signal every instance reports that it stopped, and when all   *)
(* have, the notifier is closed.                                           *)
(*                                                                         *)
(* Connections have identities that are used again when they are gone.     *)
(***************************************************************************)
EXTENDS FiniteSets, Integers, Sequences

CONSTANTS
    Instances,
    Dials,      \* identities for connections
    Timeout,    \* publishTimeout, in ticks
    DialTime,   \* the longest attempt to connect, in ticks
    CloseTime,  \* the longest handshake of a close, in ticks: when no
                \* heartbeat came for so long, the client gives the broker up
    Kinds,      \* of "mqtt" and "rabbitmq", those the notifier may be of
    None        \* no instance, no connection

ASSUME PublisherAssumption ==
    /\ IsFiniteSet(Instances) /\ None \notin Instances
    /\ IsFiniteSet(Dials) /\ None \notin Dials
    /\ Timeout \in Nat \ {0} /\ DialTime \in Nat \ {0}
    /\ CloseTime \in Nat \ {0}
    /\ Kinds \subseteq {"mqtt", "rabbitmq"}

VARIABLES
    kind,      \* the type of the notifier
    state,     \* of each instance: "idle", "locking", "connecting",
               \* "sending", or "gone"
    hung,      \* ticks of its publication in which the notifier waited for
               \* the handshake of a close
    age,       \* the other ticks since its publication began
    last,      \* it reports that it stopped
    holder,    \* the instance that holds the mutex
    waiters,   \* those that wait for it, the first one in front
    woken,     \* the first one was woken and will try to get it
    starving,  \* it has failed to, so it gets it next (sync.Mutex)
    dial,      \* of each connection: "free", "dialling", "failed", "open",
               \* "dead", and with rabbitmq "nochannel" (only its channel is
               \* closed) or "closing" (the broker has to answer the close)
    dialAge,   \* ticks it has been dialling or closing
    current,   \* the connection the notifier keeps
    pending,   \* the one being made by the instance that holds the mutex
    left,      \* connections that a publication gave up on
    cancelled, \* the daemon has got its signal
    closed     \* Close was called

instanceVars == <<state, age, hung, last>>
mutex == <<holder, waiters, woken, starving>>
connections == <<dial, dialAge, current, pending, left>>
daemon == <<kind, cancelled, closed>>
vars == <<instanceVars, mutex, connections, daemon>>

Init ==
    /\ kind \in Kinds
    /\ state = [i \in Instances |-> "idle"]
    /\ age = [i \in Instances |-> 0] /\ hung = [i \in Instances |-> 0]
    /\ last = [i \in Instances |-> FALSE]
    /\ holder = None /\ waiters = <<>> /\ woken = FALSE /\ starving = FALSE
    /\ dial = [c \in Dials |-> "free"] /\ dialAge = [c \in Dials |-> 0]
    /\ current = None /\ pending = None /\ left = {}
    /\ cancelled = FALSE /\ closed = FALSE

Publishing == {i \in Instances : state[i] \notin {"idle", "gone"}}
Free == {c \in Dials : dial[c] = "free"}

\* The context of the publication has ended. The signal ends it too, except
\* that of the last event (context.WithoutCancel in instance.run).
Expired(i) == age[i] + hung[i] >= Timeout \/ (cancelled /\ ~last[i])

-----------------------------------------------------------------------------
(* The hook and the mutex                                                  *)

\* OnEvent: the deadline is set, then Publish asks for the mutex. It may get
\* it before an instance that was just woken. That there is a free identity
\* for every publication is a bound of the model.
OnEvent(i, stop) ==
    /\ state[i] = "idle" /\ Cardinality(Publishing) < Cardinality(Free)
    /\ stop = cancelled
    /\ last' = [last EXCEPT ![i] = stop]
    /\ age' = [age EXCEPT ![i] = 0] /\ hung' = [hung EXCEPT ![i] = 0]
    /\ state' = [state EXCEPT ![i] = "locking"]
    /\ IF holder = None THEN holder' = i /\ UNCHANGED waiters
                        ELSE waiters' = Append(waiters, i) /\ UNCHANGED holder
    /\ UNCHANGED <<woken, starving, connections, daemon>>

\* The instance that was woken finds the mutex free, or taken again.
Wake ==
    /\ woken /\ woken' = FALSE
    /\ IF holder = None
       THEN /\ holder' = Head(waiters) /\ waiters' = Tail(waiters)
            /\ UNCHANGED starving
       ELSE starving' = TRUE /\ UNCHANGED <<holder, waiters>>
    /\ UNCHANGED <<instanceVars, connections, daemon>>

\* Publish returns. An instance that was passed over is handed the mutex.
Unlock ==
    IF starving
    THEN /\ holder' = Head(waiters) /\ waiters' = Tail(waiters)
         /\ starving' = (Len(waiters) > 1)
         /\ UNCHANGED woken
    ELSE /\ holder' = None /\ woken' = (waiters # <<>>)
         /\ UNCHANGED <<waiters, starving>>

Return(i) ==
    /\ state' = [state EXCEPT ![i] = IF last[i] THEN "gone" ELSE "idle"]
    /\ age' = [age EXCEPT ![i] = 0] /\ hung' = [hung EXCEPT ![i] = 0]
    /\ Unlock
    /\ UNCHANGED <<last, daemon>>

-----------------------------------------------------------------------------
(* Disconnecting                                                           *)

\* conn.Close of rabbitmq asks the broker, unless the client knows that the
\* connection is lost (IsClosed). It waits for the answer without a deadline.
AsksBroker(c) == kind = "rabbitmq" /\ dial[c] \in {"open", "nochannel"}
HangUp(c) == dial' = [dial EXCEPT ![c] = "closing"]

\* The broker answered, the connection broke or heartbeats were missed.
CloseEnds(c) ==
    /\ dial[c] = "closing"
    /\ dial' = [dial EXCEPT ![c] = "dead"]
    /\ dialAge' = [dialAge EXCEPT ![c] = 0]
    /\ UNCHANGED <<instanceVars, mutex, current, pending, left, daemon>>

\* disconnect and what it leaves, once there is nothing to wait for.
Parted == current # None => ~AsksBroker(current) /\ dial[current] # "closing"
Disconnected ==
    [c \in Dials |-> IF c = current THEN "free" ELSE dial[c]]

\* The holder of the mutex waits for the handshake of a close.
Hanging == holder # None /\ current # None /\ dial[current] = "closing"

-----------------------------------------------------------------------------
(* Connecting                                                              *)

\* The notifier has a connection that it can still publish on.
Connected == current # None /\ dial[current] = "open"

\* connect closes the connection that has lost its channel first.
HangsUpOld(i) ==
    /\ holder = i /\ state[i] = "locking" /\ ~Connected
    /\ current # None /\ AsksBroker(current) /\ HangUp(current)
    /\ UNCHANGED <<instanceVars, mutex, dialAge, current, pending, left,
                   daemon>>

\* An identity for the new connection: it does not matter which.
Fresh == CHOOSE c \in Free : TRUE

Connect(i) ==
    /\ holder = i /\ state[i] = "locking" /\ ~Connected /\ Parted
    /\ Free # {}
    /\ dial' = [Disconnected EXCEPT ![Fresh] = "dialling"]
    /\ current' = None /\ pending' = Fresh
    /\ state' = [state EXCEPT ![i] = "connecting"]
    /\ UNCHANGED <<age, hung, last, mutex, dialAge, left, daemon>>

UseConnection(i) ==
    /\ holder = i /\ state[i] = "locking" /\ Connected
    /\ state' = [state EXCEPT ![i] = "sending"]
    /\ UNCHANGED <<age, hung, last, mutex, connections, daemon>>

\* The attempt comes to an end by itself: with a connection, or without one,
\* in which case nothing is left half-open (dial, and paho's Connect).
DialEnds(c, how) ==
    /\ dial[c] = "dialling" /\ how \in {"open", "failed"}
    /\ dial' = [dial EXCEPT ![c] = how]
    /\ dialAge' = [dialAge EXCEPT ![c] = 0]
    /\ UNCHANGED <<instanceVars, mutex, current, pending, left, daemon>>

Connects(i) ==
    /\ state[i] = "connecting"
    /\ dial[pending] \in {"open", "dead", "nochannel"}
    /\ current' = pending /\ pending' = None
    /\ state' = [state EXCEPT ![i] = "sending"]
    /\ UNCHANGED <<age, hung, last, mutex, dial, dialAge, left, daemon>>

ConnectFails(i) ==
    /\ state[i] = "connecting" /\ dial[pending] = "failed"
    /\ dial' = [dial EXCEPT ![pending] = "free"] /\ pending' = None
    /\ Return(i)
    /\ UNCHANGED <<dialAge, current, left>>

\* variant: only the attempt to connect is cut short.
GivesUpConnecting(i) == Expired(i) /\ state[i] = "connecting"

GivesUp(i) == Expired(i)

\* variant: nobody waits for the connection that is given up.
LeftAlone == left

\* rabbitmq leaves a goroutine behind that waits for the connection; mqtt
\* drops the client at once.
LeftBehind == left \cup {pending}

ConnectExpires(i) ==
    /\ state[i] = "connecting" /\ GivesUp(i)
    /\ pending' = None
    /\ IF kind = "rabbitmq"
       THEN left' = LeftBehind /\ UNCHANGED <<dial, dialAge>>
       ELSE /\ dial' = [dial EXCEPT ![pending] = "free"]
            /\ dialAge' = [dialAge EXCEPT ![pending] = 0]
            /\ UNCHANGED left
    /\ Return(i)
    /\ UNCHANGED current

\* The goroutine that was left behind closes what it gets.
HangsUpLate(c) ==
    /\ c \in left /\ AsksBroker(c) /\ HangUp(c)
    /\ UNCHANGED <<instanceVars, mutex, dialAge, current, pending, left,
                   daemon>>

Reap(c) ==
    /\ c \in left /\ dial[c] \in {"failed", "dead"}
    /\ left' = left \ {c}
    /\ dial' = [dial EXCEPT ![c] = "free"]
    /\ UNCHANGED <<instanceVars, mutex, dialAge, current, pending, daemon>>

-----------------------------------------------------------------------------
(* Publishing                                                              *)

\* The broker confirms, or rejects the message (rabbitmq), which is an error
\* that keeps the connection.
Answered(i) ==
    /\ state[i] = "sending" /\ dial[current] = "open"
    /\ Return(i)
    /\ UNCHANGED connections

\* The client reports an error, or the deadline has passed: the notifier
\* disconnects, and the next publication connects again.
HangsUp(i) ==
    /\ state[i] = "sending" /\ (dial[current] # "open" \/ GivesUp(i))
    /\ AsksBroker(current) /\ HangUp(current)
    /\ UNCHANGED <<instanceVars, mutex, dialAge, current, pending, left,
                   daemon>>

SendFails(i) ==
    /\ state[i] = "sending" /\ (dial[current] # "open" \/ GivesUp(i))
    /\ Parted /\ dial' = Disconnected /\ current' = None
    /\ Return(i)
    /\ UNCHANGED <<dialAge, pending, left>>

\* The connection is lost, or only its channel is closed (rabbitmq).
Breaks(c, how) ==
    /\ dial[c] = "open"
    /\ how \in IF kind = "rabbitmq" THEN {"dead", "nochannel"} ELSE {"dead"}
    /\ dial' = [dial EXCEPT ![c] = how]
    /\ UNCHANGED <<instanceVars, mutex, dialAge, current, pending, left,
                   daemon>>

-----------------------------------------------------------------------------
(* The daemon                                                              *)

Cancel ==
    /\ ~cancelled /\ cancelled' = TRUE
    /\ UNCHANGED <<instanceVars, mutex, connections, kind, closed>>

\* variant: the notifier is closed on the signal, without waiting.
OnSignal == cancelled

\* runner.Run returns when every instance has stopped.
AllStopped == \A i \in Instances : state[i] = "gone"

HangsUpLast ==
    /\ AllStopped /\ ~closed /\ holder = None
    /\ current # None /\ AsksBroker(current) /\ HangUp(current)
    /\ UNCHANGED <<instanceVars, mutex, dialAge, current, pending, left,
                   daemon>>

Close ==
    /\ AllStopped /\ ~closed /\ holder = None
    /\ closed' = TRUE
    /\ Parted /\ dial' = Disconnected /\ current' = None
    /\ UNCHANGED <<instanceVars, mutex, dialAge, pending, left, kind,
                   cancelled>>

\* Steps that take no time, so that no tick passes before them.
Urgent ==
    \/ woken
    \/ holder # None /\ ~Hanging /\
         \/ state[holder] = "locking"
         \/ state[holder] = "connecting" /\ dial[pending] # "dialling"
         \/ GivesUp(holder)
         \/ state[holder] = "sending" /\ dial[current] # "open"

Grow(ages, who, most) ==
    [x \in DOMAIN ages |-> IF x \in who /\ ages[x] < most THEN ages[x] + 1
                                                          ELSE ages[x]]
Shaking == {c \in Dials : dial[c] \in {"dialling", "closing"}}
Longest(c) == IF dial[c] = "dialling" THEN DialTime ELSE CloseTime

\* Two closes, of the connection without a channel and of the one made in its
\* place, by each instance and by one that overtakes.
LongestHung == 2 * CloseTime * (Cardinality(Instances) + 1)
MaxAge == 2 * Timeout + 1    \* longer times are not told apart
MaxHung == LongestHung + 1

Tick ==
    /\ ~Urgent /\ (Publishing # {} \/ Shaking # {})
    /\ \A c \in Shaking : dialAge[c] < Longest(c)
    /\ IF Hanging
       THEN hung' = Grow(hung, Publishing, MaxHung) /\ UNCHANGED age
       ELSE age' = Grow(age, Publishing, MaxAge) /\ UNCHANGED hung
    /\ dialAge' = [c \in Dials |-> IF c \in Shaking THEN dialAge[c] + 1
                                                   ELSE dialAge[c]]
    /\ UNCHANGED <<state, last, mutex, dial, current, pending, left, daemon>>

Program ==
    \/ Wake
    \/ \E i \in Instances :
          \/ Connect(i) \/ UseConnection(i) \/ Connects(i) \/ ConnectFails(i)
          \/ ConnectExpires(i) \/ SendFails(i)
          \/ HangsUpOld(i) \/ HangsUp(i)
    \/ \E c \in Dials :
          \/ CloseEnds(c) \/ HangsUpLate(c) \/ Reap(c)
          \/ \E how \in {"open", "failed"} : DialEnds(c, how)
    \/ HangsUpLast \/ Close

Report == \E i \in Instances : OnEvent(i, TRUE)

Environment ==
    \/ \E i \in Instances : OnEvent(i, FALSE) \/ Answered(i)
    \/ \E c \in Dials, how \in {"dead", "nochannel"} : Breaks(c, how)
    \/ Cancel

Finished == closed /\ left = {} /\ UNCHANGED vars

Next == Program \/ Report \/ Environment \/ Tick \/ Finished

Spec == Init /\ [][Next]_vars

\* The broker owes nothing: neither an answer nor a connection. What ends by
\* itself is the attempt to connect, after its own timeout, and the wait for
\* the answer to a close, after missed heartbeats.
FairSpec == Spec /\ WF_vars(Program) /\ WF_vars(Report) /\ WF_vars(Tick)

-----------------------------------------------------------------------------

\* Every variable has its type, and the mutex is consistent with what the
\* instances do: only its holder is past it, and the waiters are waiting.
TypeOK ==
    /\ kind \in Kinds
    /\ state \in [Instances ->
                    {"idle", "locking", "connecting", "sending", "gone"}]
    /\ age \in [Instances -> 0..MaxAge]
    /\ hung \in [Instances -> 0..MaxHung]
    /\ last \in [Instances -> BOOLEAN]
    /\ holder \in Instances \cup {None}
    /\ waiters \in Seq(Instances)
    /\ woken \in BOOLEAN /\ starving \in BOOLEAN
    /\ \A i \in Instances :
          /\ state[i] \in {"connecting", "sending"} => holder = i
          /\ state[i] = "locking" =>
               holder = i \/ \E k \in DOMAIN waiters : waiters[k] = i
    /\ dial \in [Dials -> {"free", "dialling", "failed", "open", "dead",
                           "nochannel", "closing"}]
    /\ dialAge \in [Dials -> 0..(DialTime + CloseTime)]
    /\ current \in Dials \cup {None} /\ pending \in Dials \cup {None}
    /\ left \subseteq Dials
    /\ cancelled \in BOOLEAN /\ closed \in BOOLEAN

\* publishTimeout (hook.go): a broker that does not answer must not hold an
\* instance for long. However many instances share the notifier, one that
\* waits for the mutex is past it when its own deadline ends, or that of a
\* single publication that overtook it: at most twice the timeout. That is all
\* with mqtt. With rabbitmq the closes come on top, which look at no deadline:
\* at most two by each instance and two by the one that overtakes.
HeldBriefly ==
    \A i \in Instances :
        /\ age[i] <= 2 * Timeout
        /\ hung[i] <= IF kind = "rabbitmq" THEN LongestHung ELSE 0

\* connect: no connection leaks. One that is not free is the one that is kept,
\* the one being made, or one that a goroutine is going to close.
NothingLeaks ==
    \A c \in Dials : dial[c] # "free" => c \in left \cup {current, pending}

\* Close: it comes last, and nothing is published afterwards.
ClosedLast ==
    closed => Publishing = {} /\ current = None /\ holder = None

\* Run and Close: after the signal every instance reports that it stopped and
\* the notifier is closed, although the broker may never answer again; and no
\* connection stays behind.
ShutdownIsClean ==
    cancelled ~> closed /\ \A c \in Dials : dial[c] = "free"

=============================================================================
