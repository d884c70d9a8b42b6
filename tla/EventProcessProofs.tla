-------------------------- MODULE EventProcessProofs --------------------------
(***************************************************************************)
(* The lock of processWithIdempotency, the counters and the answers, for   *)
(* any messages, contents, attempts and mishaps.                           *)
(*                                                                         *)
(* That a call holds its lock needs that no two calls have one token: a    *)
(* message is delivered again only with a higher attempt, or when the      *)
(* service has died with all its calls (OneCallEach).  That an event of a  *)
(* mail provider is counted once needs that one call at most has taken it  *)
(* as new and is still to count it (OnceTaken).  That an acknowledged      *)
(* event is counted needs what a call has done before each of its steps    *)
(* (Done).  And that any other event is counted once more at most for      *)
(* every failure is a balance, between what is counted and still to be     *)
(* counted of a content, and what was paid for it (Paid).                  *)
(***************************************************************************)
EXTENDS EventProcess, FiniteSetTheorems, TLAPS

States == [at : {"queue", "bridge", "acked", "dead"}, attempt : 1..MaxAttempts]

\* The call that c becomes.
Moved(c, step, fresh, ok) ==
    [message |-> c.message, attempt |-> c.attempt, at |-> step, fresh |-> fresh, ok |-> ok]

\* What the types say of a call.
LEMMA CallFacts ==
    ASSUME TypeOK, NEW c \in calls
    PROVE  /\ c \in Calls /\ c.message \in Messages /\ c.attempt \in 1..MaxAttempts
           /\ c.fresh \subseteq Content(c).events /\ c.ok \in BOOLEAN
           /\ Content(c) \in Contents /\ Content(c).events \subseteq Events
           /\ Token(c) \in Tokens /\ Token(c) # Free
BY EventProcessAssumption DEF TypeOK, Calls, Content, Contents, Token, Tokens

\* A call that goes on keeps its content and its token.
LEMMA MovedFacts ==
    ASSUME TypeOK, NEW c \in calls, NEW step \in Steps, NEW fresh, fresh \subseteq Content(c).events,
           NEW ok \in BOOLEAN
    PROVE  /\ Moved(c, step, fresh, ok) \in Calls
           /\ Content(Moved(c, step, fresh, ok)) = Content(c)
           /\ Token(Moved(c, step, fresh, ok)) = Token(c)
<1>1. c.message \in Messages /\ c.attempt \in 1..MaxAttempts /\ fresh \in SUBSET Events
    BY CallFacts
<1> QED
    BY <1>1 DEF Moved, Calls, Content, Token

\* A message that comes again has a higher attempt.
LEMMA NackedFacts ==
    ASSUME NEW s \in States
    PROVE  /\ Nacked(s) \in States
           /\ s.attempt <= Nacked(s).attempt
           /\ Nacked(s).at = "queue" => s.attempt < Nacked(s).attempt
BY EventProcessAssumption DEF Nacked, States

(***************************************************************************)
(* Types.                                                                  *)
(***************************************************************************)

\* The part of the type invariant that concerns calls and messages.
CallsOK ==
    /\ load \in Loads
    /\ message \in [Messages -> States]
    /\ calls \subseteq Calls /\ \A c \in calls : c.fresh \subseteq Content(c).events

\* The part that concerns Redis and the history.
RedisOK ==
    /\ lock \in [Contents -> Tokens \cup {Free}]
    /\ processed \subseteq Contents /\ seen \subseteq Events
    /\ count \in [Events -> Nat]
    /\ mishaps \in 0..MaxMishaps
    /\ outlived \subseteq Tokens /\ dropped \subseteq Contents
    /\ again \in [Contents -> Nat]

\* The type invariant by its parts.
LEMMA TypeIs == TypeOK <=> CallsOK /\ RedisOK
BY DEF TypeOK, CallsOK, RedisOK, States

\* The same after a step.
LEMMA TypeIsNext == TypeOK' <=> CallsOK' /\ RedisOK'
BY DEF TypeOK, CallsOK, RedisOK, States, Content

\* A call that goes on.
LEMMA MovesType ==
    ASSUME TypeOK, NEW c \in calls, NEW step \in Steps, NEW fresh, fresh \subseteq Content(c).events,
           NEW ok \in BOOLEAN, Moves(c, step, fresh, ok), UNCHANGED <<load, message>>
    PROVE  CallsOK'
<1>1. calls' = (calls \ {c}) \cup {Moved(c, step, fresh, ok)}
    BY DEF Moves, Moved
<1>2. Moved(c, step, fresh, ok).fresh = fresh
    BY DEF Moved
<1> QED
    BY <1>1, <1>2, MovedFacts, TypeIs DEF CallsOK, Content

\* A call that goes on with what it has.
LEMMA GoesType ==
    ASSUME TypeOK, NEW c \in calls, NEW step \in Steps, Goes(c, step), UNCHANGED <<load, message>>
    PROVE  CallsOK'
BY CallFacts, MovesType DEF Goes

\* A call that is answered.
LEMMA AnswerType ==
    ASSUME TypeOK, NEW c \in calls, NEW ok \in BOOLEAN, Answer(c, ok), UNCHANGED load
    PROVE  CallsOK'
<1>1. c.message \in Messages /\ message \in [Messages -> States]
    BY CallFacts, TypeIs DEF CallsOK
<1>2. message[c.message] \in States
    BY <1>1
<1>3. [message[c.message] EXCEPT !.at = "acked"] \in States
    BY <1>2 DEF States
<1>4. Nacked(message[c.message]) \in States
    BY <1>2, NackedFacts
<1>5. message' \in [Messages -> States]
    BY <1>1, <1>3, <1>4 DEF Answer
<1>6. calls' \subseteq calls
    BY DEF Answer
<1> QED
    BY <1>5, <1>6, TypeIs DEF CallsOK, Content

\* Counting keeps the counters natural numbers.
LEMMA CountType ==
    ASSUME RedisOK, NEW events, CountEvents(events)
    PROVE  count' \in [Events -> Nat]
BY DEF RedisOK, CountEvents

\* Mishaps stay within their bound.
LEMMA MishapType ==
    ASSUME RedisOK, Mishap
    PROVE  mishaps' \in 0..MaxMishaps
BY EventProcessAssumption DEF RedisOK, Mishap

\* The types at the start.
LEMMA TypeInit == Init => TypeOK
<1> SUFFICES ASSUME Init PROVE TypeOK
    OBVIOUS
<1>1. message \in [Messages -> States]
    BY EventProcessAssumption DEF Init, States
<1>2. CallsOK
    BY <1>1 DEF Init, CallsOK
<1>3. RedisOK
    BY EventProcessAssumption DEF Init, RedisOK
<1> QED
    BY <1>2, <1>3, TypeIs

\* The steps of a call.
LEMMA TypeWork ==
    ASSUME TypeOK, NEW c \in calls, Work(c) \/ Fails(c)
    PROVE  TypeOK'
<1> USE TypeIs
<1>0. /\ Content(c) \in Contents /\ Content(c).events \subseteq Events /\ Token(c) \in Tokens
      /\ c.ok \in BOOLEAN
    BY CallFacts
<1>1. CASE IsProcessed(c)
    <2>1. RedisOK'
        BY <1>1 DEF IsProcessed, RedisOK, redis, history
    <2>2. CallsOK'
        BY <1>1, AnswerType, GoesType DEF IsProcessed, broker, Steps
    <2> QED
        BY <2>1, <2>2, TypeIsNext
<1>2. CASE AcquireLock(c)
    <2>1. RedisOK'
        BY <1>0, <1>2 DEF AcquireLock, RedisOK
    <2>2. CallsOK'
        BY <1>2, AnswerType, GoesType DEF AcquireLock, broker, Steps
    <2> QED
        BY <2>1, <2>2, TypeIsNext
<1>3. CASE IsProcessedAfterLock(c)
    <2>1. RedisOK'
        BY <1>3 DEF IsProcessedAfterLock, RedisOK, redis, history
    <2>2. CallsOK'
        BY <1>3, GoesType DEF IsProcessedAfterLock, broker, Steps
    <2> QED
        BY <2>1, <2>2, TypeIsNext
<1>4. CASE Begin(c)
    <2> DEFINE fresh == IF Mail(c) THEN Content(c).events \ seen ELSE Content(c).events
               step == IF fresh = {} THEN "mark" ELSE "effects"
    <2>1. fresh \subseteq Content(c).events /\ step \in Steps
        BY DEF Steps
    <2>2. /\ Moves(c, step, fresh, c.ok)
          /\ seen' = IF Mail(c) THEN seen \cup fresh ELSE seen
          /\ CountEvents(fresh) \/ UNCHANGED count
          /\ dropped' \in {dropped, dropped \cup {Content(c)}}
          /\ UNCHANGED <<load, broker, lock, processed, mishaps, outlived, again>>
        BY <1>4 DEF Begin
    <2> HIDE DEF fresh, step
    <2>3. CallsOK'
        BY <1>0, <2>1, <2>2, MovesType DEF broker
    <2>4. count' \in [Events -> Nat]
        BY <2>2, CountType DEF RedisOK
    <2>5. RedisOK'
        BY <1>0, <2>1, <2>2, <2>4 DEF RedisOK
    <2> QED
        BY <2>3, <2>5, TypeIsNext
<1>5. CASE Effects(c)
    <2>1. RedisOK'
        BY <1>5 DEF Effects, RedisOK, redis, history
    <2>2. CallsOK'
        BY <1>5, GoesType DEF Effects, broker, Steps
    <2> QED
        BY <2>1, <2>2, TypeIsNext
<1>6. CASE Count(c)
    <2>1. RedisOK'
        BY <1>6, CountType DEF Count, RedisOK, history
    <2>2. CallsOK'
        BY <1>6, GoesType DEF Count, broker, Steps
    <2> QED
        BY <2>1, <2>2, TypeIsNext
<1>7. CASE Mark(c)
    <2>1. RedisOK'
        BY <1>0, <1>7 DEF Mark, RedisOK, history
    <2>2. CallsOK'
        BY <1>7, GoesType DEF Mark, broker, Steps
    <2> QED
        BY <2>1, <2>2, TypeIsNext
<1>8. CASE ReleaseLock(c)
    <2>1. RedisOK'
        BY <1>8 DEF ReleaseLock, RedisOK
    <2>2. CallsOK'
        BY <1>0, <1>8, AnswerType DEF ReleaseLock
    <2> QED
        BY <2>1, <2>2, TypeIsNext
<1>9. CASE Fails(c)
    <2>1. RedisOK'
        BY <1>0, <1>9, MishapType DEF Fails, RedisOK, redis
    <2>2. CallsOK'
        BY <1>9, CallFacts, MovesType DEF Fails, broker, Steps
    <2> QED
        BY <2>1, <2>2, TypeIsNext
<1> QED
    BY <1>1, <1>2, <1>3, <1>4, <1>5, <1>6, <1>7, <1>8, <1>9 DEF Work

\* The steps of the bridge, of time and of the service as a whole.
LEMMA TypeRest ==
    ASSUME TypeOK,
           \/ \E m \in Messages : Deliver(m) \/ TimesOut(m)
           \/ Crash
           \/ Expiry
    PROVE  TypeOK'
<1> USE TypeIs
<1>1. ASSUME NEW m \in Messages, Deliver(m) PROVE TypeOK'
    <2> DEFINE new == [message |-> m, attempt |-> message[m].attempt, at |-> "check",
                       fresh |-> {}, ok |-> TRUE]
    <2>1. message[m] \in States /\ message \in [Messages -> States]
        BY DEF CallsOK
    <2>2. new \in Calls /\ new.fresh = {}
        BY <2>1 DEF Calls, Steps, States
    <2>3. calls' = calls \cup {new}
        BY <1>1 DEF Deliver
    <2>4. message' \in [Messages -> States]
        BY <1>1, <2>1 DEF Deliver, States
    <2> HIDE DEF new
    <2>5. CallsOK'
        BY <1>1, <2>2, <2>3, <2>4 DEF CallsOK, Deliver, Content
    <2>6. RedisOK'
        BY <1>1 DEF RedisOK, Deliver, redis, history
    <2> QED
        BY <2>5, <2>6, TypeIsNext
<1>2. ASSUME NEW m \in Messages, TimesOut(m) PROVE TypeOK'
    <2>1. message[m] \in States /\ message \in [Messages -> States]
        BY DEF CallsOK
    <2>2. message' \in [Messages -> States]
        BY <1>2, <2>1, NackedFacts DEF TimesOut
    <2>3. CallsOK'
        BY <1>2, <2>2 DEF TimesOut, CallsOK, Content
    <2>4. RedisOK'
        BY <1>2, MishapType DEF RedisOK, TimesOut, redis, history
    <2> QED
        BY <2>3, <2>4, TypeIsNext
<1>3. CASE Crash
    <2>1. message \in [Messages -> States]
        BY DEF CallsOK
    <2>2. message' \in [Messages -> States]
        BY <1>3, <2>1 DEF Crash, States
    <2>3. CallsOK'
        BY <1>3, <2>2 DEF Crash, CallsOK
    <2>4. again' \in [Contents -> Nat]
        BY <1>3 DEF Crash, RedisOK
    <2>5. RedisOK'
        BY <1>3, <2>4, MishapType DEF RedisOK, Crash, redis
    <2> QED
        BY <2>3, <2>5, TypeIsNext
<1>4. ASSUME NEW k \in Contents, LockExpires(k) PROVE TypeOK'
    <2>1. lock[k] \in Tokens
        BY <1>4 DEF RedisOK, LockExpires
    <2>2. lock' \in [Contents -> Tokens \cup {Free}]
        BY <1>4 DEF RedisOK, LockExpires
    <2>3. /\ mishaps' \in 0..MaxMishaps /\ outlived' \subseteq Tokens /\ again' \in [Contents -> Nat]
        <3>1. mishaps' \in 0..MaxMishaps
            BY <1>4, MishapType DEF RedisOK, LockExpires
        <3> QED
            BY <1>4, <2>1, <3>1 DEF RedisOK, LockExpires
    <2>4. RedisOK'
        BY <1>4, <2>2, <2>3 DEF RedisOK, LockExpires
    <2>5. CallsOK'
        BY <1>4 DEF CallsOK, LockExpires, broker, Content
    <2> QED
        BY <2>4, <2>5, TypeIsNext
<1> QED
    BY <1>1, <1>2, <1>3, <1>4 DEF Expiry

\* Every step keeps the types.
LEMMA TypeStep == TypeOK /\ [Next]_vars => TypeOK'
<1> SUFFICES ASSUME TypeOK, [Next]_vars PROVE TypeOK'
    OBVIOUS
<1>1. CASE UNCHANGED vars
    BY <1>1 DEF vars, TypeOK, Content
<1> QED
    BY <1>1, TypeWork, TypeRest DEF Next, Working, Trouble

\* Types of calls, messages, locks and counters; in particular no message is delivered
\* more often than it has attempts.
THEOREM TypeCorrect == Spec => []TypeOK
<1> QED
    BY TypeInit, TypeStep, PTL DEF Spec
(***************************************************************************)
(* The lock.                                                               *)
(***************************************************************************)

\* A message comes again only with a higher attempt than its calls have.
AttemptsGrow ==
    \A c \in calls :
        /\ c.attempt <= message[c.message].attempt
        /\ message[c.message].at = "queue" => c.attempt < message[c.message].attempt

\* No two calls have one token.
OneCallEach == \A c, d \in calls : Token(c) = Token(d) => c = d

LockInv == TypeOK /\ HoldsItsLock /\ AttemptsGrow /\ OneCallEach

\* A message that is not in the queue afterwards, or has a higher attempt.
LEMMA AnswerGrows ==
    ASSUME TypeOK, AttemptsGrow, NEW c \in calls, NEW ok \in BOOLEAN, Answer(c, ok)
    PROVE  AttemptsGrow'
<1>1. c.message \in Messages /\ message \in [Messages -> States]
    BY CallFacts, TypeIs DEF CallsOK
<1>2. calls' \subseteq calls
    BY DEF Answer
<1>3. message[c.message] \in States
    BY <1>1
<1>4. CASE message' = message
    BY <1>2, <1>4 DEF AttemptsGrow
<1>5. CASE ok /\ message' = [message EXCEPT ![c.message] = [@ EXCEPT !.at = "acked"]]
    <2>1. \A d \in calls : d.message \in Messages /\ d.attempt \in Nat /\ message[d.message] \in States
        BY <1>1, CallFacts
    <2> QED
        BY <1>1, <1>2, <1>3, <1>5, <2>1 DEF AttemptsGrow, States
<1>6. CASE message' = [message EXCEPT ![c.message] = Nacked(@)]
    <2>1. \A d \in calls : d.message \in Messages /\ d.attempt \in Nat
        BY CallFacts
    <2>2. /\ Nacked(message[c.message]) \in States
          /\ message[c.message].attempt <= Nacked(message[c.message]).attempt
          /\ Nacked(message[c.message]).at = "queue"
                => message[c.message].attempt < Nacked(message[c.message]).attempt
        BY <1>3, NackedFacts
    <2>3. message[c.message].attempt \in Nat /\ Nacked(message[c.message]).attempt \in Nat
        BY <1>3, <2>2 DEF States
    <2> QED
        BY <1>1, <1>2, <1>6, <2>1, <2>2, <2>3 DEF AttemptsGrow
<1> QED
    BY <1>4, <1>5, <1>6 DEF Answer

\* An answered call, while no lock changes.
LEMMA AnswerLock ==
    ASSUME LockInv, TypeOK', NEW c \in calls, NEW ok \in BOOLEAN, Answer(c, ok), UNCHANGED <<load, lock, outlived>>
    PROVE  LockInv'
<1>1. calls' \subseteq calls
    BY DEF Answer
<1>2. AttemptsGrow'
    BY AnswerGrows DEF LockInv
<1> QED
    BY <1>1, <1>2 DEF LockInv, HoldsItsLock, OneCallEach, Content, Token

\* A call that goes on, from under the lock or to a step outside it.
LEMMA MovesLock ==
    ASSUME LockInv, TypeOK', NEW c \in calls, NEW step \in Steps, NEW fresh, fresh \subseteq Content(c).events,
           NEW ok \in BOOLEAN, Moves(c, step, fresh, ok), UNCHANGED <<load, message, lock, outlived>>,
           c.at \in UnderLock \/ step \notin UnderLock
    PROVE  LockInv'
<1> DEFINE new == Moved(c, step, fresh, ok)
<1>1. calls' = (calls \ {c}) \cup {new}
    BY DEF Moves, Moved
<1>2. Content(new) = Content(c) /\ Token(new) = Token(c)
    BY MovedFacts DEF LockInv
<1>3. new.at = step /\ new.message = c.message /\ new.attempt = c.attempt
    BY DEF Moved
<1> HIDE DEF new
<1>4. HoldsItsLock'
    BY <1>1, <1>2, <1>3 DEF LockInv, HoldsItsLock, Content, Token
<1>5. AttemptsGrow'
    BY <1>1, <1>3 DEF LockInv, AttemptsGrow
<1>6. OneCallEach'
    BY <1>1, <1>2 DEF LockInv, OneCallEach, Token
<1> QED
    BY <1>4, <1>5, <1>6 DEF LockInv

\* A call that goes on with what it has.
LEMMA GoesLock ==
    ASSUME LockInv, TypeOK', NEW c \in calls, NEW step \in Steps, Goes(c, step),
           UNCHANGED <<load, message, lock, outlived>>, c.at \in UnderLock \/ step \notin UnderLock
    PROVE  LockInv'
BY CallFacts, MovesLock DEF Goes, LockInv

\* The steps of a call keep the lock with who has it.
LEMMA LockWork ==
    ASSUME LockInv, TypeOK', NEW c \in calls, Work(c) \/ Fails(c)
    PROVE  LockInv'
<1>0. /\ TypeOK /\ Content(c) \in Contents /\ Token(c) \in Tokens /\ Token(c) # Free
      /\ c.ok \in BOOLEAN /\ lock \in [Contents -> Tokens \cup {Free}]
    BY CallFacts DEF LockInv, TypeOK
<1>1. CASE IsProcessed(c)
    BY <1>1, AnswerLock, GoesLock DEF IsProcessed, broker, redis, history, Steps, UnderLock,
       Processing
<1>2. CASE AcquireLock(c)
    <2>1. CASE lock[Content(c)] = Free
        <3> DEFINE new == Moved(c, "recheck", c.fresh, c.ok)
        <3>1. /\ lock' = [lock EXCEPT ![Content(c)] = Token(c)] /\ UNCHANGED <<load, message, outlived>>
              /\ calls' = (calls \ {c}) \cup {new}
            BY <1>2, <2>1 DEF AcquireLock, Goes, Moves, Moved, broker
        <3>2. Content(new) = Content(c) /\ Token(new) = Token(c)
            BY CallFacts, MovedFacts DEF LockInv, Steps
        <3>3. new.message = c.message /\ new.attempt = c.attempt
            BY DEF Moved
        <3> HIDE DEF new
        <3>4. \A d \in calls : Content(d) = Content(c) /\ d.at \in UnderLock => Token(d) \in outlived
            BY <2>1, CallFacts DEF LockInv, HoldsItsLock
        <3>5. lock'[Content(c)] = Token(c) /\ \A k \in Contents \ {Content(c)} : lock'[k] = lock[k]
            BY <1>0, <3>1
        <3>6. \A d \in calls : Content(d) \in Contents
            BY <1>0, CallFacts
        <3>7. HoldsItsLock'
            BY <3>1, <3>2, <3>4, <3>5, <3>6 DEF LockInv, HoldsItsLock, Content, Token
        <3>8. AttemptsGrow'
            BY <3>1, <3>3 DEF LockInv, AttemptsGrow
        <3>9. OneCallEach'
            BY <3>1, <3>2 DEF LockInv, OneCallEach, Token
        <3> QED
            BY <3>7, <3>8, <3>9 DEF LockInv
    <2>2. CASE lock[Content(c)] # Free
        BY <1>2, <2>2, AnswerLock DEF AcquireLock
    <2> QED
        BY <2>1, <2>2
<1>3. CASE IsProcessedAfterLock(c)
    BY <1>3, GoesLock DEF IsProcessedAfterLock, At, broker, redis, history, Steps, UnderLock,
       Processing
<1>4. CASE Begin(c)
    <2>1. PICK step \in {"mark", "effects"}, fresh \in SUBSET Content(c).events : Moves(c, step, fresh, c.ok)
        BY <1>4 DEF Begin
    <2>2. c.at \in UnderLock /\ step \in Steps
        BY <1>4 DEF Begin, At, UnderLock, Processing, Steps
    <2> QED
        BY <1>0, <1>4, <2>1, <2>2, MovesLock DEF Begin, broker
<1>5. CASE Effects(c)
    BY <1>5, GoesLock DEF Effects, At, broker, redis, history, Steps, UnderLock, Processing
<1>6. CASE Count(c)
    BY <1>6, GoesLock DEF Count, At, broker, history, Steps, UnderLock, Processing
<1>7. CASE Mark(c)
    BY <1>7, GoesLock DEF Mark, At, broker, history, Steps, UnderLock, Processing
<1>8. CASE ReleaseLock(c)
    <2>1. /\ Answer(c, c.ok) /\ calls' = calls \ {c} /\ UNCHANGED load
          /\ lock' = IF lock[Content(c)] = Token(c) THEN [lock EXCEPT ![Content(c)] = Free] ELSE lock
          /\ outlived' = outlived \ {Token(c)}
        BY <1>8 DEF ReleaseLock, Answer
    <2>2. \A d \in calls' : d \in calls /\ Token(d) # Token(c) /\ Content(d) \in Contents
        BY <1>0, <2>1, CallFacts DEF LockInv, OneCallEach
    <2>3. \A k \in Contents : lock'[k] = lock[k] \/ lock[k] = Token(c)
        BY <1>0, <2>1
    <2>4. HoldsItsLock'
        BY <2>1, <2>2, <2>3 DEF LockInv, HoldsItsLock, Content, Token
    <2>5. AttemptsGrow'
        BY <1>0, <2>1, AnswerGrows DEF LockInv
    <2>6. OneCallEach'
        BY <2>1 DEF LockInv, OneCallEach, Token
    <2> QED
        BY <2>4, <2>5, <2>6 DEF LockInv
<1>9. CASE Fails(c)
    <2>1. c.at \in UnderLock /\ "release" \in Steps
        BY <1>9 DEF Fails, UnderLock, Processing, Steps
    <2> QED
        BY <1>0, <1>9, <2>1, CallFacts, MovesLock DEF Fails, broker, redis
<1> QED
    BY <1>1, <1>2, <1>3, <1>4, <1>5, <1>6, <1>7, <1>8, <1>9 DEF Work

\* So do those of the bridge, of time and of the service as a whole.
LEMMA LockRest ==
    ASSUME LockInv, TypeOK',
           \/ \E m \in Messages : Deliver(m) \/ TimesOut(m)
           \/ Crash
           \/ Expiry
    PROVE  LockInv'
<1>0. /\ TypeOK /\ message \in [Messages -> States] /\ lock \in [Contents -> Tokens \cup {Free}]
      /\ \A c \in calls : c.message \in Messages /\ c.attempt \in Nat
    BY CallFacts, TypeIs DEF LockInv, CallsOK, RedisOK
<1>1. ASSUME NEW m \in Messages, Deliver(m) PROVE LockInv'
    <2> DEFINE new == [message |-> m, attempt |-> message[m].attempt, at |-> "check",
                       fresh |-> {}, ok |-> TRUE]
    <2>1. calls' = calls \cup {new} /\ message' = [message EXCEPT ![m].at = "bridge"]
          /\ message[m].at = "queue" /\ UNCHANGED <<load, lock, outlived>>
        BY <1>1 DEF Deliver, redis, history
    <2>2. new.at \notin UnderLock /\ new.message = m /\ new.attempt = message[m].attempt
          /\ Token(new) = <<m, message[m].attempt>>
        BY DEF UnderLock, Processing, Token
    <2> HIDE DEF new
    <2>3. message[m].attempt \in Nat /\ message'[m].attempt = message[m].attempt /\ message'[m].at = "bridge"
          /\ \A n \in Messages \ {m} : message'[n] = message[n]
        BY <1>0, <2>1 DEF States
    <2>4. HoldsItsLock'
        BY <2>1, <2>2 DEF LockInv, HoldsItsLock, Content, Token
    <2>5. AttemptsGrow'
        BY <1>0, <2>1, <2>2, <2>3 DEF LockInv, AttemptsGrow
    <2>6. \A c \in calls : Token(c) # Token(new)
        BY <1>0, <2>1, <2>2, <2>3 DEF LockInv, AttemptsGrow, Token
    <2>7. OneCallEach'
        BY <2>1, <2>6 DEF LockInv, OneCallEach, Token
    <2> QED
        BY <2>4, <2>5, <2>7 DEF LockInv
<1>2. ASSUME NEW m \in Messages, TimesOut(m) PROVE LockInv'
    <2>1. /\ message' = [message EXCEPT ![m] = Nacked(@)] /\ message[m] \in States
          /\ UNCHANGED <<load, calls, lock, outlived>>
        BY <1>0, <1>2 DEF TimesOut, redis, history
    <2>2. /\ Nacked(message[m]) \in States /\ message[m].attempt <= Nacked(message[m]).attempt
          /\ Nacked(message[m]).at = "queue" => message[m].attempt < Nacked(message[m]).attempt
        BY <2>1, NackedFacts
    <2>3. message[m].attempt \in Nat /\ Nacked(message[m]).attempt \in Nat
        BY <2>1, <2>2 DEF States
    <2>4. AttemptsGrow'
        BY <1>0, <2>1, <2>2, <2>3 DEF LockInv, AttemptsGrow
    <2> QED
        BY <2>1, <2>4 DEF LockInv, HoldsItsLock, OneCallEach, Content, Token
<1>3. CASE Crash
    BY <1>3 DEF Crash, LockInv, HoldsItsLock, AttemptsGrow, OneCallEach
<1>4. ASSUME NEW k \in Contents, LockExpires(k) PROVE LockInv'
    <2>1. /\ lock' = [lock EXCEPT ![k] = Free] /\ UNCHANGED <<load, message, calls>>
          /\ outlived \subseteq outlived'
          /\ \A c \in calls : c.at \in UnderLock /\ Token(c) = lock[k] => Token(c) \in outlived'
        BY <1>4 DEF LockExpires, broker
    <2>2. \A j \in Contents \ {k} : lock'[j] = lock[j]
        BY <1>0, <2>1
    <2>3. \A c \in calls : Content(c) \in Contents
        BY <1>0, CallFacts
    <2>4. HoldsItsLock'
        BY <2>1, <2>2, <2>3 DEF LockInv, HoldsItsLock, Content, Token
    <2> QED
        BY <2>1, <2>4 DEF LockInv, AttemptsGrow, OneCallEach, Token
<1> QED
    BY <1>1, <1>2, <1>3, <1>4 DEF Expiry

\* Every step keeps the invariant of the lock.
LEMMA LockStep == LockInv /\ [Next]_vars => LockInv'
<1> SUFFICES ASSUME LockInv, [Next]_vars PROVE LockInv'
    OBVIOUS
<1>1. TypeOK'
    BY TypeStep DEF LockInv
<1>2. CASE UNCHANGED vars
    BY <1>1, <1>2 DEF vars, redis, history, LockInv, HoldsItsLock, AttemptsGrow, OneCallEach,
       Content, Token
<1> QED
    BY <1>1, <1>2, LockWork, LockRest DEF Next, Working, Trouble

\* A call that processes a content holds its lock, whatever other calls, timeouts and
\* crashes there are, unless it was slower than the lock.
THEOREM LockIsHeld == Spec => []HoldsItsLock
<1>1. Init => LockInv
    BY TypeInit DEF Init, LockInv, HoldsItsLock, AttemptsGrow, OneCallEach
<1>2. LockInv => HoldsItsLock
    BY DEF LockInv
<1> QED
    BY <1>1, <1>2, LockStep, PTL DEF Spec

(***************************************************************************)
(* The events of mail providers.                                           *)
(***************************************************************************)

\* Calls that have taken an event of a mail provider as new, and not counted it.
Holds(c, e) == Mail(c) /\ c.at \in {"effects", "count"} /\ e \in c.fresh

\* Events that come from a mail provider.
MailEvent(e) == \E m \in Messages : load[m].kind = "mail" /\ e \in load[m].events

OnceTaken ==
    \A e \in Events : MailEvent(e) =>
        /\ count[e] <= 1
        /\ e \notin seen => count[e] = 0
        /\ \A c \in calls : Holds(c, e) => e \in seen /\ count[e] = 0
        /\ \A c, d \in calls : Holds(c, e) /\ Holds(d, e) => c = d

MailInv == TypeOK /\ OnceTaken

\* An event of a mail provider is carried by contents of mail only.
LEMMA MailCarries ==
    ASSUME TypeOK, NEW c \in calls, NEW e \in Content(c).events, MailEvent(e)
    PROVE  Mail(c)
<1>1. PICK m \in Messages : load[m].kind = "mail" /\ e \in load[m].events
    BY DEF MailEvent
<1>2. c.message \in Messages /\ load \in Loads /\ e \in load[c.message].events
    BY CallFacts DEF TypeOK, Content
<1>3. load[m].events \cap load[c.message].events # {}
    BY <1>1, <1>2
<1> QED
    BY <1>1, <1>2, <1>3, EventProcessAssumption DEF Mail, Content

\* Nothing is counted or forgotten, and a call that is new holds nothing.
LEMMA NoneTaken ==
    ASSUME MailInv, TypeOK', UNCHANGED <<load, count>>, seen \subseteq seen',
           \A d \in calls' : d \in calls \/ d.at \notin {"effects", "count"}
    PROVE  MailInv'
BY DEF MailInv, OnceTaken, MailEvent, Holds, Mail, Content

\* A call that goes on to a step before or after the count.
LEMMA GoesNoneTaken ==
    ASSUME MailInv, TypeOK', NEW c \in calls, NEW step \in Steps \ {"effects", "count"}, NEW fresh,
           NEW ok, Moves(c, step, fresh, ok), UNCHANGED <<load, count, seen>>
    PROVE  MailInv'
<1>1. \A d \in calls' : d \in calls \/ d.at = step
    BY DEF Moves
<1> QED
    BY <1>1, NoneTaken

\* A call that takes the events nobody has seen.
LEMMA MailBegin ==
    ASSUME MailInv, TypeOK', NEW c \in calls, Begin(c)
    PROVE  MailInv'
<1> DEFINE fresh == IF Mail(c) THEN Content(c).events \ seen ELSE Content(c).events
           step == IF fresh = {} THEN "mark" ELSE "effects"
           new == Moved(c, step, fresh, c.ok)
<1>1. /\ calls' = (calls \ {c}) \cup {new} /\ UNCHANGED load
      /\ seen' = IF Mail(c) THEN seen \cup fresh ELSE seen
      /\ IF CountsFirst(c) THEN CountEvents(fresh) ELSE UNCHANGED count
    BY DEF Begin, Moves, Moved
<1>2. new.at = step /\ new.fresh = fresh /\ new.message = c.message
    BY DEF Moved
<1>3. fresh \subseteq Content(c).events /\ (Mail(c) => fresh \cap seen = {}) /\ TypeOK
    BY DEF MailInv
<1>4. Content(new) = Content(c)
    BY <1>2 DEF Content
<1> HIDE DEF fresh, step, new
<1> SUFFICES ASSUME NEW e \in Events, MailEvent(e)
             PROVE  /\ count'[e] <= 1
                    /\ e \notin seen' => count'[e] = 0
                    /\ \A d \in calls' : Holds(d, e)' => e \in seen' /\ count'[e] = 0
                    /\ \A d, f \in calls' : Holds(d, e)' /\ Holds(f, e)' => d = f
    BY <1>1 DEF MailInv, OnceTaken, MailEvent
<1>5. count'[e] = count[e] /\ seen \subseteq seen'
    <2>1. CASE CountsFirst(c)
        <3>1. e \notin fresh
            BY <1>3, <2>1, MailCarries DEF CountsFirst, Mail
        <3> QED
            BY <1>1, <2>1, <3>1 DEF CountEvents
    <2>2. CASE ~CountsFirst(c)
        BY <1>1, <2>2
    <2> QED
        BY <2>1, <2>2
<1>6. \A d : Holds(d, e)' <=> Holds(d, e)
    BY <1>1 DEF Holds, Mail, Content
<1>7. /\ count[e] <= 1 /\ (e \notin seen => count[e] = 0)
      /\ \A d \in calls : Holds(d, e) => e \in seen /\ count[e] = 0
      /\ \A d, f \in calls : Holds(d, e) /\ Holds(f, e) => d = f
    BY DEF MailInv, OnceTaken
<1>8. Holds(new, e) => e \notin seen /\ e \in seen'
    BY <1>1, <1>2, <1>3, <1>4 DEF Holds, Mail
<1> QED
    BY <1>1, <1>5, <1>6, <1>7, <1>8

\* A call that counts what it has taken.
LEMMA MailCount ==
    ASSUME MailInv, TypeOK', NEW c \in calls, Count(c)
    PROVE  MailInv'
<1> DEFINE new == Moved(c, "mark", c.fresh, c.ok)
<1>1. /\ calls' = (calls \ {c}) \cup {new} /\ UNCHANGED <<load, seen>>
      /\ count' = [e \in Events |-> IF e \in c.fresh THEN count[e] + 1 ELSE count[e]]
      /\ c.at = "count"
    BY DEF Count, Goes, Moves, Moved, CountEvents, At
<1>2. new.at = "mark"
    BY DEF Moved
<1>3. TypeOK /\ c.fresh \subseteq Content(c).events
    BY CallFacts DEF MailInv
<1> HIDE DEF new
<1> SUFFICES ASSUME NEW e \in Events, MailEvent(e)
             PROVE  /\ count'[e] <= 1
                    /\ e \notin seen' => count'[e] = 0
                    /\ \A d \in calls' : Holds(d, e)' => e \in seen' /\ count'[e] = 0
                    /\ \A d, f \in calls' : Holds(d, e)' /\ Holds(f, e)' => d = f
    BY <1>1 DEF MailInv, OnceTaken, MailEvent
<1>4. \A d : Holds(d, e)' <=> Holds(d, e)
    BY <1>1 DEF Holds, Mail, Content
<1>5. ~Holds(new, e)
    BY <1>2 DEF Holds
<1>6. /\ count[e] <= 1 /\ (e \notin seen => count[e] = 0)
      /\ \A d \in calls : Holds(d, e) => e \in seen /\ count[e] = 0
      /\ \A d, f \in calls : Holds(d, e) /\ Holds(f, e) => d = f
    BY DEF MailInv, OnceTaken
<1>7. CASE e \in c.fresh
    <2>1. Holds(c, e)
        BY <1>1, <1>3, <1>7, MailCarries DEF Holds
    <2>2. count'[e] = 1 /\ e \in seen'
        BY <1>1, <1>6, <1>7, <2>1
    <2>3. \A d \in calls' : ~Holds(d, e)
        BY <1>1, <1>5, <1>6, <2>1
    <2> QED
        BY <1>4, <2>2, <2>3
<1>8. CASE e \notin c.fresh
    BY <1>1, <1>4, <1>5, <1>6, <1>8
<1> QED
    BY <1>7, <1>8

\* A call that has written its contacts and logs.
LEMMA MailEffects ==
    ASSUME MailInv, TypeOK', NEW c \in calls, Effects(c)
    PROVE  MailInv'
<1> DEFINE step == IF CountsFirst(c) THEN "mark" ELSE "count"
           new == Moved(c, step, c.fresh, c.ok)
<1>1. calls' = (calls \ {c}) \cup {new} /\ UNCHANGED <<load, seen, count>> /\ c.at = "effects"
    BY DEF Effects, Goes, Moves, Moved, At, redis
<1>2. new.fresh = c.fresh /\ new.message = c.message
    BY DEF Moved
<1> HIDE DEF new
<1>3. \A e \in Events : Holds(new, e) => Holds(c, e)
    BY <1>1, <1>2 DEF Holds, Mail, Content
<1>4. \A d, e : Holds(d, e)' <=> Holds(d, e)
    BY <1>1 DEF Holds, Mail, Content
<1> QED
    BY <1>1, <1>3, <1>4 DEF MailInv, OnceTaken, MailEvent

\* Every step keeps the invariant of the mail events.
LEMMA MailStep == MailInv /\ [Next]_vars => MailInv'
<1> SUFFICES ASSUME MailInv, [Next]_vars PROVE MailInv'
    OBVIOUS
<1>1. TypeOK'
    BY TypeStep DEF MailInv
<1>2. CASE UNCHANGED vars
    BY <1>1, <1>2, NoneTaken DEF vars, redis
<1>3. ASSUME NEW c \in calls, Work(c) \/ Fails(c) PROVE MailInv'
    <2>1. CASE IsProcessed(c)
        BY <1>1, <2>1, NoneTaken, GoesNoneTaken DEF IsProcessed, Answer, Goes, Steps, redis
    <2>2. CASE AcquireLock(c)
        BY <1>1, <2>2, NoneTaken, GoesNoneTaken DEF AcquireLock, Answer, Goes, Steps
    <2>3. CASE IsProcessedAfterLock(c)
        BY <1>1, <2>3, GoesNoneTaken DEF IsProcessedAfterLock, Goes, Steps, redis
    <2>4. CASE Mark(c)
        BY <1>1, <2>4, GoesNoneTaken DEF Mark, Goes, Steps
    <2>5. CASE ReleaseLock(c)
        BY <1>1, <2>5, NoneTaken DEF ReleaseLock, Answer
    <2>6. CASE Fails(c)
        BY <1>1, <2>6, GoesNoneTaken DEF Fails, Steps, redis
    <2> QED
        BY <1>1, <1>3, <2>1, <2>2, <2>3, <2>4, <2>5, <2>6, MailBegin, MailCount, MailEffects
           DEF Work
<1>4. ASSUME NEW m \in Messages, Deliver(m) PROVE MailInv'
    BY <1>1, <1>4, NoneTaken DEF Deliver, redis
<1>5. ASSUME NEW m \in Messages, TimesOut(m) PROVE MailInv'
    BY <1>1, <1>5, NoneTaken DEF TimesOut, redis
<1>6. CASE Crash
    BY <1>1, <1>6, NoneTaken DEF Crash, redis
<1>7. CASE Expiry
    BY <1>1, <1>7, NoneTaken DEF Expiry, LockExpires
<1> QED
    BY <1>2, <1>3, <1>4, <1>5, <1>6, <1>7 DEF Next, Working, Trouble

\* An event of a mail provider is counted once, for any batches that carry it, any
\* attempts, timeouts, crashes and calls slower than their lock.
THEOREM MailOnce == Spec => []MailCountedOnce
<1>1. Init => MailInv
    <2> SUFFICES ASSUME Init PROVE MailInv
        OBVIOUS
    <2>1. calls = {} /\ \A e \in Events : count[e] = 0
        BY DEF Init
    <2> QED
        BY <2>1, TypeInit DEF MailInv, OnceTaken
<1>2. MailInv => MailCountedOnce
    <2> SUFFICES ASSUME MailInv, NEW m \in Messages, NEW e \in Events,
                        load[m].kind = "mail", e \in load[m].events
                 PROVE  count[e] <= 1
        BY DEF MailCountedOnce
    <2> QED
        BY DEF MailInv, OnceTaken, MailEvent
<1> QED
    BY <1>1, <1>2, MailStep, PTL DEF Spec
(***************************************************************************)
(* What is acknowledged.  A call has all the events of its content before  *)
(* it, or the content was recorded as passed over; the marker, and the     *)
(* answer that relies on it, come after the events are counted.            *)
(***************************************************************************)

\* The events of a content are counted, or somebody passed it over.
Settled(k) == k \in dropped \/ \A e \in k.events : count[e] >= 1

\* What a call has done at its steps.
Done(c) ==
    /\ c.at \in {"effects", "count"} => Content(c) \in dropped \/ c.fresh = Content(c).events
    /\ c.at = "effects" /\ CountsFirst(c) => Settled(Content(c))
    /\ c.at = "mark" => Settled(Content(c))
    /\ c.at = "release" /\ c.ok => Content(c) \in processed

AckInv ==
    /\ TypeOK
    /\ \A c \in calls : Done(c)
    /\ \A k \in processed : Settled(k)
    /\ \A m \in Messages : message[m].at = "acked" => Settled(load[m])

\* What is counted, passed over or marked stays so.
Onward ==
    /\ UNCHANGED load /\ dropped \subseteq dropped' /\ processed \subseteq processed'
    /\ \A e \in Events : count[e] <= count'[e]

\* What is settled stays so.
LEMMA SettledStays ==
    ASSUME TypeOK, TypeOK', Onward, NEW k \in Contents, Settled(k)
    PROVE  Settled(k)'
<1>1. CASE k \in dropped
    BY <1>1 DEF Onward, Settled
<1>2. ASSUME \A e \in k.events : count[e] >= 1, NEW e \in k.events PROVE count'[e] >= 1
    <2>1. e \in Events /\ count[e] \in Nat /\ count'[e] \in Nat
        BY DEF TypeOK, Contents
    <2> QED
        BY <1>2, <2>1 DEF Onward
<1> QED
    BY <1>1, <1>2 DEF Settled

\* A step that leaves the calls it keeps, or moves one that has done its part.
LEMMA AckKept ==
    ASSUME AckInv, TypeOK', Onward,
           \A c \in calls' : c \in calls \/ Done(c)',
           \A k \in processed' : k \in processed \/ Settled(k)',
           \A m \in Messages : message'[m].at = "acked" => message[m].at = "acked" \/ Settled(load[m])'
    PROVE  AckInv'
<1>1. \A k \in Contents : Settled(k) => Settled(k)'
    BY SettledStays DEF AckInv
<1>2. ASSUME NEW c \in calls PROVE Done(c)'
    <2>1. Done(c) /\ Content(c) \in Contents
        BY CallFacts DEF AckInv
    <2> QED
        BY <1>1, <2>1 DEF Done, Onward, Content, CountsFirst
<1>3. ASSUME NEW k \in processed PROVE Settled(k)'
    BY <1>1 DEF AckInv, TypeOK
<1>4. ASSUME NEW m \in Messages, message[m].at = "acked" PROVE Settled(load[m])'
    <2>1. load[m] \in Contents
        BY EventProcessAssumption DEF AckInv, TypeOK
    <2> QED
        BY <1>1, <1>4, <2>1 DEF AckInv, Settled, Onward
<1> QED
    BY <1>2, <1>3, <1>4 DEF AckInv, Onward

\* Counting takes nothing away.
LEMMA CountGrows ==
    ASSUME TypeOK, NEW events, CountEvents(events)
    PROVE  /\ \A e \in Events : count[e] <= count'[e]
           /\ \A e \in Events \cap events : count'[e] >= 1
BY DEF TypeOK, CountEvents

\* The message of an answered call is acknowledged only when the answer is a yes.
LEMMA AnswerAcks ==
    ASSUME TypeOK, NEW c \in calls, NEW ok \in BOOLEAN, Answer(c, ok)
    PROVE  /\ calls' \subseteq calls
           /\ \A m \in Messages : message'[m].at = "acked" =>
                 message[m].at = "acked" \/ (ok /\ m = c.message)
<1>1. c.message \in Messages /\ message \in [Messages -> States]
    BY CallFacts, TypeIs DEF CallsOK
<1>2. Nacked(message[c.message]).at # "acked" \/ message[c.message].at = "acked"
    BY <1>1 DEF Nacked
<1>3. CASE message' = message
    BY <1>3 DEF Answer
<1>4. CASE ok /\ message' = [message EXCEPT ![c.message] = [@ EXCEPT !.at = "acked"]]
    BY <1>1, <1>4 DEF Answer
<1>5. CASE message' = [message EXCEPT ![c.message] = Nacked(@)]
    BY <1>1, <1>2, <1>5 DEF Answer
<1> QED
    BY <1>3, <1>4, <1>5 DEF Answer

\* A call that is answered with what its content is settled by, or with a no.
LEMMA AnswerAcked ==
    ASSUME AckInv, TypeOK', Onward, NEW c \in calls, NEW ok \in BOOLEAN, Answer(c, ok),
           ok => Settled(Content(c))', UNCHANGED processed
    PROVE  AckInv'
<1>1. \A m \in Messages : message'[m].at = "acked" => message[m].at = "acked" \/ Settled(load[m])'
    <2>1. \A m \in Messages : message'[m].at = "acked" =>
              message[m].at = "acked" \/ (ok /\ m = c.message)
        BY AnswerAcks DEF AckInv
    <2> QED
        BY <2>1 DEF Content
<1>2. calls' \subseteq calls
    BY DEF Answer
<1> QED
    BY <1>1, <1>2, AckKept

\* A call that goes on with its part done.
LEMMA MovesAcked ==
    ASSUME AckInv, TypeOK', Onward, NEW c \in calls, NEW step, NEW fresh, NEW ok,
           Moves(c, step, fresh, ok), UNCHANGED message,
           \A k \in processed' : k \in processed \/ Settled(k)',
           NEW k, k = Content(c),
           step \in {"effects", "count"} => k \in dropped' \/ fresh = k.events,
           step = "effects" /\ CountsFirst(c) => Settled(k)',
           step = "mark" => Settled(k)',
           step = "release" /\ ok => k \in processed'
    PROVE  AckInv'
<1> DEFINE d == Moved(c, step, fresh, ok)
<1>1. calls' = (calls \ {c}) \cup {d}
    BY DEF Moves, Moved
<1>2. d.at = step /\ d.fresh = fresh /\ d.ok = ok /\ d.message = c.message
    BY DEF Moved
<1> HIDE DEF d
<1>3. Content(d)' = k /\ (CountsFirst(d)' <=> CountsFirst(c))
    BY <1>2 DEF Content, CountsFirst, Onward
<1>4. Settled(Content(d))' <=> Settled(k)'
    BY <1>3 DEF Settled
<1>5. Done(d)'
    BY <1>2, <1>3, <1>4 DEF Done
<1> QED
    BY <1>1, <1>5, AckKept

\* The steps of a call.
LEMMA AckWork ==
    ASSUME AckInv, TypeOK', NEW c \in calls, Work(c) \/ Fails(c)
    PROVE  AckInv'
<1>1. /\ TypeOK /\ Done(c) /\ Content(c) \in Contents /\ c.ok \in BOOLEAN
      /\ Content(c).events \subseteq Events /\ c.fresh \subseteq Content(c).events
    BY CallFacts DEF AckInv
<1>2. Onward
    <2>1. \A e \in Events : count[e] <= count'[e]
        <3>1. CASE UNCHANGED count
            BY <1>1, <3>1 DEF TypeOK
        <3>2. CASE \E events : CountEvents(events)
            BY <1>1, <3>2, CountGrows
        <3> QED
            BY <3>1, <3>2 DEF Work, IsProcessed, AcquireLock, IsProcessedAfterLock, Begin, Effects,
                              Count, Mark, ReleaseLock, Fails, redis
    <2>2. UNCHANGED load /\ dropped \subseteq dropped' /\ processed \subseteq processed'
        BY DEF Work, IsProcessed, AcquireLock, IsProcessedAfterLock, Begin, Effects,
               Count, Mark, ReleaseLock, Fails, redis, history
    <2> QED
        BY <2>1, <2>2 DEF Onward
<1>3. PICK k : k = Content(c)
    OBVIOUS
<1>4. /\ Settled(k) => Settled(k)'
      /\ Settled(k)' => Settled(Content(c))'
      /\ Settled(Content(c)) => Settled(k)
    <2>1. Content(c)' = k
        BY <1>2, <1>3 DEF Onward, Content
    <2>2. Settled(k) => Settled(k)'
        BY <1>1, <1>2, <1>3, SettledStays
    <2>3. Settled(k)' => Settled(Content(c))'
        BY <2>1 DEF Settled
    <2> QED
        BY <1>3, <2>2, <2>3
<1>5. CASE IsProcessed(c)
    <2>1. UNCHANGED processed
        BY <1>5 DEF IsProcessed, redis
    <2>2. CASE Content(c) \in processed /\ Answer(c, TRUE)
        <3>1. Settled(Content(c))
            BY <2>2 DEF AckInv
        <3>2. Settled(Content(c))'
            BY <1>4, <3>1
        <3> QED
            BY <1>2, <2>1, <2>2, <3>2, AnswerAcked
    <2>3. CASE Goes(c, "lock") /\ UNCHANGED message
        BY <1>2, <1>3, <2>1, <2>3, MovesAcked DEF Goes
    <2> QED
        BY <1>5, <2>2, <2>3 DEF IsProcessed, broker
<1>6. CASE AcquireLock(c)
    <2>1. UNCHANGED processed
        BY <1>6 DEF AcquireLock
    <2>2. CASE Answer(c, TRUE) /\ Content(c) \in dropped'
        <3>1. Settled(Content(c))'
            <4>1. Content(c)' = Content(c)
                BY <1>2 DEF Onward, Content
            <4> QED
                BY <2>2, <4>1 DEF Settled
        <3> QED
            BY <1>2, <2>1, <2>2, <3>1, AnswerAcked
    <2>3. CASE Goes(c, "recheck") /\ UNCHANGED message
        BY <1>2, <1>3, <2>1, <2>3, MovesAcked DEF Goes
    <2> QED
        BY <1>6, <2>2, <2>3 DEF AcquireLock, broker
<1>7. CASE IsProcessedAfterLock(c)
    <2>1. UNCHANGED <<processed, message>>
        BY <1>7 DEF IsProcessedAfterLock, redis, broker
    <2>2. CASE Content(c) \in processed /\ Goes(c, "release")
        BY <1>2, <1>3, <2>1, <2>2, MovesAcked DEF Goes
    <2>3. CASE Goes(c, "begin")
        BY <1>2, <1>3, <2>1, <2>3, MovesAcked DEF Goes
    <2> QED
        BY <1>7, <2>2, <2>3 DEF IsProcessedAfterLock
<1>8. CASE Begin(c)
    <2> DEFINE fresh == IF Mail(c) THEN Content(c).events \ seen ELSE Content(c).events
    <2>1. /\ Moves(c, IF fresh = {} THEN "mark" ELSE "effects", fresh, c.ok)
          /\ IF CountsFirst(c) THEN CountEvents(fresh) ELSE UNCHANGED count
          /\ dropped' = IF fresh = Content(c).events THEN dropped ELSE dropped \cup {Content(c)}
          /\ UNCHANGED <<message, processed>>
        BY <1>8 DEF Begin, broker
    <2> HIDE DEF fresh
    <2>2. k \in dropped' \/ fresh = k.events
        BY <1>3, <2>1
    <2>3. CountsFirst(c) => Settled(k)'
        BY <1>1, <1>3, <2>1, <2>2, CountGrows DEF Settled
    <2>4. fresh = {} => Settled(k)'
        BY <2>2 DEF Settled
    <2> QED
        BY <1>2, <1>3, <2>1, <2>2, <2>3, <2>4, MovesAcked
<1>9. CASE Effects(c)
    <2>1. c.at = "effects" /\ UNCHANGED <<processed, dropped, message>>
        BY <1>9 DEF Effects, At, redis, history, broker
    <2>2. CASE CountsFirst(c) /\ Goes(c, "mark")
        <3>1. Settled(k)'
            BY <1>1, <1>3, <1>4, <2>1, <2>2 DEF Done
        <3> QED
            BY <1>2, <1>3, <2>1, <2>2, <3>1, MovesAcked DEF Goes
    <2>3. CASE Goes(c, "count")
        <3>1. k \in dropped' \/ c.fresh = k.events
            BY <1>1, <1>3, <2>1 DEF Done
        <3> QED
            BY <1>2, <1>3, <2>1, <2>3, <3>1, MovesAcked DEF Goes
    <2> QED
        BY <1>9, <2>2, <2>3 DEF Effects
<1>10. CASE Count(c)
    <2>1. /\ c.at = "count" /\ CountEvents(c.fresh) /\ Goes(c, "mark")
          /\ UNCHANGED <<processed, dropped, message>>
        BY <1>10 DEF Count, At, history, broker
    <2>2. k \in dropped \/ c.fresh = k.events
        BY <1>1, <1>3, <2>1 DEF Done
    <2>3. Settled(k)'
        BY <1>1, <1>3, <2>1, <2>2, CountGrows DEF Settled
    <2> QED
        BY <1>2, <1>3, <2>1, <2>3, MovesAcked DEF Goes
<1>11. CASE Mark(c)
    <2>1. /\ c.at = "mark" /\ Goes(c, "release") /\ UNCHANGED message
          /\ processed' = processed \cup {Content(c)}
        BY <1>11 DEF Mark, At, broker
    <2>2. Settled(k)'
        BY <1>1, <1>3, <1>4, <2>1 DEF Done
    <2>3. \A j \in processed' : j \in processed \/ Settled(j)'
        BY <1>3, <2>1, <2>2
    <2> QED
        BY <1>2, <1>3, <2>1, <2>3, MovesAcked DEF Goes
<1>12. CASE ReleaseLock(c)
    <2>1. c.at = "release" /\ Answer(c, c.ok) /\ UNCHANGED processed
        BY <1>12 DEF ReleaseLock, At
    <2>2. c.ok => Settled(Content(c))
        BY <1>1, <2>1 DEF Done, AckInv
    <2>3. c.ok => Settled(Content(c))'
        BY <1>4, <2>2
    <2> QED
        BY <1>1, <1>2, <2>1, <2>3, AnswerAcked
<1>13. CASE Fails(c)
    <2>1. Moves(c, "release", c.fresh, FALSE) /\ UNCHANGED message /\ UNCHANGED processed
        BY <1>13 DEF Fails, redis, broker
    <2>2. PICK fresh, ok : fresh = c.fresh /\ ok = FALSE
        OBVIOUS
    <2>3. Moves(c, "release", fresh, ok)
        BY <2>1, <2>2
    <2>4. \A j \in processed' : j \in processed \/ Settled(j)'
        BY <2>1
    <2> QED
        BY <1>2, <1>3, <2>1, <2>2, <2>3, <2>4, MovesAcked
<1> QED
    BY <1>5, <1>6, <1>7, <1>8, <1>9, <1>10, <1>11, <1>12, <1>13 DEF Work

\* Every step keeps the invariant.
LEMMA AckStep == AckInv /\ [Next]_vars => AckInv'
<1> SUFFICES ASSUME AckInv, [Next]_vars PROVE AckInv'
    OBVIOUS
<1>1. TypeOK' /\ TypeOK
    BY TypeStep DEF AckInv
<1>2. ASSUME UNCHANGED <<load, processed, count, dropped>>,
             \A c \in calls' : c \in calls \/ c.at = "check",
             \A m \in Messages : message'[m].at = "acked" => message[m].at = "acked"
      PROVE  AckInv'
    <2>1. Onward
        BY <1>1, <1>2 DEF Onward, TypeOK
    <2>2. \A c \in calls' : c \in calls \/ Done(c)'
        BY <1>2 DEF Done
    <2> QED
        BY <1>1, <1>2, <2>1, <2>2, AckKept
<1>3. ASSUME NEW c \in calls, Work(c) \/ Fails(c) PROVE AckInv'
    BY <1>1, <1>3, AckWork
<1>4. message \in [Messages -> States]
    BY <1>1, TypeIs DEF CallsOK
<1>5. ASSUME NEW m \in Messages, Deliver(m) PROVE AckInv'
    <2>1. \A c \in calls' : c \in calls \/ c.at = "check"
        BY <1>5 DEF Deliver
    <2>2. \A n \in Messages : message'[n].at = "acked" => message[n].at = "acked"
        BY <1>4, <1>5 DEF Deliver
    <2> QED
        BY <1>2, <1>5, <2>1, <2>2 DEF Deliver, redis, history
<1>6. ASSUME NEW m \in Messages, TimesOut(m) PROVE AckInv'
    <2>1. Nacked(message[m]).at = "acked" => message[m].at = "acked"
        BY <1>4 DEF Nacked, States
    <2>2. \A n \in Messages : message'[n].at = "acked" => message[n].at = "acked"
        BY <1>4, <1>6, <2>1 DEF TimesOut
    <2> QED
        BY <1>2, <1>6, <2>2 DEF TimesOut, redis, history
<1>7. CASE Crash
    <2>1. \A n \in Messages : message'[n].at = "acked" => message[n].at = "acked"
        BY <1>4, <1>7 DEF Crash, States
    <2> QED
        BY <1>2, <1>7, <2>1 DEF Crash, redis
<1>8. CASE Expiry
    BY <1>2, <1>8 DEF Expiry, LockExpires, broker
<1>9. CASE UNCHANGED vars
    BY <1>2, <1>9 DEF vars, redis, history
<1> QED
    BY <1>3, <1>5, <1>6, <1>7, <1>8, <1>9 DEF Next, Working, Trouble

\* A message is acknowledged only with its events counted, or passed over, whatever
\* calls, timeouts, failures and crashes there were before.
THEOREM AckedAreCounted == Spec => []AckedIsCounted
<1>1. Init => AckInv
    BY TypeInit DEF Init, AckInv
<1>2. AckInv => AckedIsCounted
    BY DEF AckInv, Settled, AckedIsCounted
<1> QED
    BY <1>1, <1>2, AckStep, PTL DEF Spec

(***************************************************************************)
(* The other events.  Each of them comes in one content, and what is       *)
(* counted of that content, with what is still to be counted, was paid     *)
(* for: by the first call that is in time or has left the marker, and by   *)
(* the calls that failed, crashed or were slower than the lock.            *)
(***************************************************************************)

\* An event that comes in this content only.
Only(e, k) == \A m \in Messages : e \in load[m].events => load[m] = k

\* A call at this step is to count the events of its content; one that has outlived
\* its lock is so before it looks for the marker.
Counting(c, step) ==
    \/ step \in {"begin", "count"}
    \/ step = "effects" /\ ~CountsFirst(c)
    \/ step = "recheck" /\ Token(c) \in outlived

\* The calls, by their tokens, that are still to count a content.
Yet(k) == {Token(c) : c \in {d \in calls : Content(d) = k /\ Counting(d, d.at)}}

\* A call processes the content, and has its lock.
Timely(c) == c.at \in Processing /\ Token(c) \notin outlived
InTime(k) == \E c \in calls : Content(c) = k /\ Timely(c)
First(k) == IF k \in processed \/ InTime(k) THEN 1 ELSE 0

Paid(k) ==
    /\ IsFiniteSet(Yet(k))
    /\ \A e \in k.events : Only(e, k) => count[e] + Cardinality(Yet(k)) <= again[k] + First(k)

\* A lock has the token of a message with its content.
LocksOwn == \A k \in Contents : lock[k] # Free => load[lock[k][1]] = k

\* A token that has outlived its lock is that of a call that is still at work.
LateAtWork == \A t \in outlived : \E c \in calls : Token(c) = t /\ c.at \in UnderLock

PaidInv == LockInv /\ LocksOwn /\ LateAtWork /\ \A k \in Contents : Paid(k)

\* A step that leaves a content paid for.
Pays(k) ==
    /\ IsFiniteSet(Yet(k))'
    /\ \A e \in k.events : Only(e, k) =>
          count'[e] + Cardinality(Yet(k)') + again[k] + First(k)
             <= count[e] + Cardinality(Yet(k)) + again'[k] + First(k)'

\* A step that pays for what it adds keeps a content paid for.
LEMMA PaysPaid ==
    ASSUME TypeOK, TypeOK', NEW k \in Contents, Paid(k), Pays(k), UNCHANGED load
    PROVE  Paid(k)'
<1>1. Cardinality(Yet(k)) \in Nat /\ Cardinality(Yet(k))' \in Nat
    BY FS_CardinalityType DEF Paid, Pays
<1>2. First(k) \in Nat /\ First(k)' \in Nat
    BY DEF First
<1>3. again[k] \in Nat /\ again'[k] \in Nat
    BY DEF TypeOK
<1>4. ASSUME NEW e \in k.events, Only(e, k)'
      PROVE  count'[e] + Cardinality(Yet(k)') <= again'[k] + First(k)'
    <2>1. Only(e, k)
        BY <1>4 DEF Only
    <2>2. count[e] \in Nat /\ count'[e] \in Nat
        BY DEF TypeOK, Contents
    <2>3. /\ count[e] + Cardinality(Yet(k)) <= again[k] + First(k)
          /\ count'[e] + Cardinality(Yet(k)') + again[k] + First(k)
                <= count[e] + Cardinality(Yet(k)) + again'[k] + First(k)'
        BY <2>1 DEF Paid, Pays
    <2> QED
        BY <1>1, <1>2, <1>3, <2>2, <2>3
<1> QED
    BY <1>4 DEF Paid, Pays

\* Nothing more is to be counted, nothing is counted, and nobody who paid is gone.
LEMMA QuietPays ==
    ASSUME TypeOK, TypeOK', NEW k \in Contents, Paid(k), Yet(k)' = Yet(k),
           First(k) <= First(k)', again[k] <= again'[k],
           \A e \in k.events : Only(e, k) => count'[e] = count[e]
    PROVE  Pays(k)
<1>1. Cardinality(Yet(k)) \in Nat /\ Cardinality(Yet(k)') = Cardinality(Yet(k))
    BY FS_CardinalityType DEF Paid
<1>2. First(k) \in Nat /\ First(k)' \in Nat
    BY DEF First
<1>3. again[k] \in Nat /\ again'[k] \in Nat
    BY DEF TypeOK
<1>4. \A e \in k.events : count[e] \in Nat
    BY DEF TypeOK, Contents
<1> QED
    BY <1>1, <1>2, <1>3, <1>4 DEF Pays, Paid
\* A call that goes on: only its own content is affected, and by its own token.
LEMMA MovedSets ==
    ASSUME LockInv, NEW c \in calls, NEW step \in Steps, NEW fresh, fresh \subseteq Content(c).events,
           NEW ok \in BOOLEAN, Moves(c, step, fresh, ok), UNCHANGED load, UNCHANGED outlived
    PROVE  /\ \A j \in Contents \ {Content(c)} : Yet(j)' = Yet(j) /\ (InTime(j)' <=> InTime(j))
           /\ Counting(c, step) => Yet(Content(c))' = Yet(Content(c)) \cup {Token(c)}
           /\ ~Counting(c, step) => Yet(Content(c))' = Yet(Content(c)) \ {Token(c)}
           /\ Counting(c, c.at) <=> Token(c) \in Yet(Content(c))
           /\ step \in Processing /\ Token(c) \notin outlived => InTime(Content(c))'
           /\ InTime(Content(c)) => InTime(Content(c))' \/ (Timely(c) /\ step \notin Processing)
<1> DEFINE d == Moved(c, step, fresh, ok)
<1>1. calls' = (calls \ {c}) \cup {d}
    BY DEF Moves, Moved
<1>2. Content(d) = Content(c) /\ Token(d) = Token(c) /\ d.at = step
    BY MovedFacts DEF LockInv, Moved
<1>3. CountsFirst(d) <=> CountsFirst(c)
    BY <1>2 DEF CountsFirst
<1> HIDE DEF d
<1>4. \A b : /\ Content(b)' = Content(b) /\ Token(b)' = Token(b) /\ (Timely(b)' <=> Timely(b))
             /\ \A q : Counting(b, q)' <=> Counting(b, q)
    BY DEF Content, Token, Timely, Counting, CountsFirst
<1>5. \A b \in calls \ {c} : Token(b) # Token(c)
    BY DEF LockInv, OneCallEach
<1>6. Counting(d, d.at) <=> Counting(c, step)
    BY <1>2, <1>3 DEF Counting
<1>7. Timely(d) <=> step \in Processing /\ Token(c) \notin outlived
    BY <1>2 DEF Timely
<1>8. \A j, t : t \in Yet(j)' <=>
                   \/ \E b \in calls \ {c} : Content(b) = j /\ Counting(b, b.at) /\ Token(b) = t
                   \/ Content(c) = j /\ Counting(c, step) /\ t = Token(c)
    BY <1>1, <1>2, <1>4, <1>6 DEF Yet
<1>9. \A j, t : t \in Yet(j) <=>
                   \/ \E b \in calls \ {c} : Content(b) = j /\ Counting(b, b.at) /\ Token(b) = t
                   \/ Content(c) = j /\ Counting(c, c.at) /\ t = Token(c)
    BY DEF Yet
<1>10. \A j : InTime(j)' <=>
                   \/ \E b \in calls \ {c} : Content(b) = j /\ Timely(b)
                   \/ Content(c) = j /\ step \in Processing /\ Token(c) \notin outlived
    BY <1>1, <1>2, <1>4, <1>7 DEF InTime
<1>11. \A j : InTime(j) <=>
                   \/ \E b \in calls \ {c} : Content(b) = j /\ Timely(b)
                   \/ Content(c) = j /\ Timely(c)
    BY DEF InTime
<1>12. ASSUME NEW j \in Contents \ {Content(c)}
       PROVE  Yet(j)' = Yet(j) /\ (InTime(j)' <=> InTime(j))
    <2>1. \A t : t \in Yet(j)' <=> t \in Yet(j)
        BY <1>8, <1>9
    <2> QED
        BY <1>10, <1>11, <2>1
<1>13. ASSUME NEW k, k = Content(c)
       PROVE  /\ Counting(c, step) => Yet(k)' = Yet(k) \cup {Token(c)}
              /\ ~Counting(c, step) => Yet(k)' = Yet(k) \ {Token(c)}
              /\ Counting(c, c.at) <=> Token(c) \in Yet(k)
              /\ step \in Processing /\ Token(c) \notin outlived => InTime(k)'
              /\ InTime(k) => InTime(k)' \/ (Timely(c) /\ step \notin Processing)
    <2>1. \A t \in Yet(k) : t \in Yet(k)' \/ t = Token(c)
        BY <1>8, <1>9, <1>13
    <2>2. \A t \in Yet(k)' : t \in Yet(k) \/ (t = Token(c) /\ Counting(c, step))
        BY <1>8, <1>9, <1>13
    <2>3. Token(c) \in Yet(k)' <=> Counting(c, step)
        BY <1>5, <1>8, <1>13
    <2>4. Counting(c, c.at) <=> Token(c) \in Yet(k)
        BY <1>5, <1>9, <1>13
    <2>5. InTime(k) => InTime(k)' \/ (Timely(c) /\ step \notin Processing)
        BY <1>10, <1>11, <1>13 DEF Timely
    <2>6. step \in Processing /\ Token(c) \notin outlived => InTime(k)'
        BY <1>10, <1>13
    <2> QED
        BY <2>1, <2>2, <2>3, <2>4, <2>5, <2>6
<1>14. PICK k : k = Content(c)
    OBVIOUS
<1>15. Yet(k)' = Yet(Content(c))' /\ (InTime(k)' <=> InTime(Content(c))')
    BY <1>4, <1>14 DEF Yet, InTime
<1> QED
    BY <1>12, <1>13, <1>14, <1>15

\* A call that is answered was not to count, and did not process.
LEMMA AnswerSets ==
    ASSUME LockInv, NEW c \in calls, NEW ok, Answer(c, ok), c.at \in {"check", "lock", "release"},
           UNCHANGED load, outlived' \subseteq outlived, outlived \ {Token(c)} \subseteq outlived'
    PROVE  \A j \in Contents : Yet(j)' = Yet(j) /\ (InTime(j)' <=> InTime(j))
<1>1. calls' = calls \ {c}
    BY DEF Answer
<1>2. \A b \in calls \ {c} : Token(b) # Token(c)
    BY DEF LockInv, OneCallEach
<1>3. \A b \in calls \ {c} :
         /\ Content(b)' = Content(b) /\ Token(b)' = Token(b) /\ (Timely(b)' <=> Timely(b))
         /\ Counting(b, b.at)' <=> Counting(b, b.at)
    BY <1>2 DEF Content, Token, Timely, Counting, CountsFirst
<1>4. ~Counting(c, c.at) /\ ~Timely(c)
    BY DEF Counting, Timely, Processing
<1>5. ASSUME NEW j \in Contents PROVE Yet(j)' = Yet(j)
    BY <1>1, <1>3, <1>4 DEF Yet
<1>6. ASSUME NEW j \in Contents PROVE InTime(j)' <=> InTime(j)
    BY <1>1, <1>3, <1>4 DEF InTime
<1> QED
    BY <1>5, <1>6
\* Locks stay with the messages of their content.
LEMMA OwnStep ==
    ASSUME TypeOK, LocksOwn, [Next]_vars
    PROVE  LocksOwn'
<1>1. lock \in [Contents -> Tokens \cup {Free}]
    BY DEF TypeOK
<1>2. CASE UNCHANGED <<load, lock>>
    BY <1>2 DEF LocksOwn
<1>3. ASSUME NEW c \in calls, AcquireLock(c) PROVE LocksOwn'
    <2>1. Token(c)[1] = c.message /\ Content(c) = load[c.message] /\ UNCHANGED load
        BY <1>3 DEF Token, Content, AcquireLock
    <2>2. UNCHANGED lock \/ lock' = [lock EXCEPT ![Content(c)] = Token(c)]
        BY <1>3 DEF AcquireLock
    <2> QED
        BY <1>1, <1>2, <2>1, <2>2 DEF LocksOwn
<1>4. ASSUME NEW c \in calls, ReleaseLock(c) PROVE LocksOwn'
    <2>1. UNCHANGED lock \/ lock' = [lock EXCEPT ![Content(c)] = Free]
        BY <1>4 DEF ReleaseLock
    <2> QED
        BY <1>1, <1>4, <2>1 DEF LocksOwn, ReleaseLock
<1>5. ASSUME NEW k \in Contents, LockExpires(k) PROVE LocksOwn'
    BY <1>1, <1>5 DEF LocksOwn, LockExpires
<1>6. CASE \/ \E m \in Messages : Deliver(m) \/ TimesOut(m)
           \/ Crash \/ UNCHANGED vars
           \/ \E c \in calls : \/ IsProcessed(c) \/ IsProcessedAfterLock(c) \/ Begin(c)
                               \/ Effects(c) \/ Count(c) \/ Mark(c) \/ Fails(c)
    BY <1>2, <1>6 DEF Deliver, TimesOut, Crash, vars, IsProcessed, IsProcessedAfterLock, Begin,
                      Effects, Count, Mark, Fails, redis
<1> QED
    BY <1>3, <1>4, <1>5, <1>6 DEF Next, Working, Trouble, Expiry, Work

\* A call that goes on stays at work, or was not at work.
LEMMA LateMoves ==
    ASSUME LockInv, LateAtWork, NEW c \in calls, NEW step \in Steps, NEW fresh,
           fresh \subseteq Content(c).events, NEW ok \in BOOLEAN, Moves(c, step, fresh, ok),
           step \in UnderLock \/ c.at \notin UnderLock, UNCHANGED outlived
    PROVE  LateAtWork'
<1> DEFINE d == Moved(c, step, fresh, ok)
<1>1. calls' = (calls \ {c}) \cup {d}
    BY DEF Moves, Moved
<1>2. Token(d) = Token(c) /\ d.at = step
    BY MovedFacts DEF LockInv, Moved
<1> HIDE DEF d
<1>3. \A b : Token(b)' = Token(b)
    BY DEF Token
<1>4. ASSUME NEW t \in outlived
      PROVE  \E b \in calls' : Token(b) = t /\ b.at \in UnderLock
    <2>1. PICK b \in calls : Token(b) = t /\ b.at \in UnderLock
        BY DEF LateAtWork
    <2>2. CASE b = c
        BY <1>1, <1>2, <2>1, <2>2
    <2>3. CASE b # c
        BY <1>1, <2>1, <2>3
    <2> QED
        BY <2>2, <2>3
<1> QED
    BY <1>3, <1>4 DEF LateAtWork

\* A call that goes on with what it has.
LEMMA LateGoes ==
    ASSUME LockInv, LateAtWork, NEW c \in calls, NEW step \in Steps, Goes(c, step),
           step \in UnderLock \/ c.at \notin UnderLock, UNCHANGED outlived
    PROVE  LateAtWork'
BY CallFacts, LateMoves DEF Goes, LockInv

\* Calls of a token that has outlived nothing, or was not at work, are answered.
LEMMA LateAnswer ==
    ASSUME LockInv, LateAtWork, NEW c \in calls, NEW ok, Answer(c, ok),
           outlived' \subseteq outlived,
           Token(c) \notin outlived' \/ c.at \notin UnderLock
    PROVE  LateAtWork'
<1>1. calls' = calls \ {c} /\ \A b : Token(b)' = Token(b)
    BY DEF Answer, Token
<1> QED
    BY <1>1 DEF LateAtWork, LockInv, OneCallEach

\* Every step leaves the tokens that outlived a lock with calls at work.
LEMMA LateStep ==
    ASSUME LockInv, LateAtWork, [Next]_vars
    PROVE  LateAtWork'
<1>1. TypeOK /\ lock \in [Contents -> Tokens \cup {Free}]
    BY DEF LockInv, TypeOK
<1>2. CASE calls \subseteq calls' /\ outlived' \subseteq outlived
    BY <1>2 DEF LateAtWork, Token
<1>3. CASE Crash
    BY <1>3 DEF Crash, LateAtWork
<1>4. ASSUME NEW k \in Contents, LockExpires(k) PROVE LateAtWork'
    <2>1. \/ outlived' = outlived
          \/ outlived' = outlived \cup {lock[k]} /\ \E c \in calls : Token(c) = lock[k] /\ c.at \in UnderLock
        BY <1>4 DEF LockExpires
    <2>2. UNCHANGED calls /\ \A b : Token(b)' = Token(b)
        BY <1>4 DEF LockExpires, Token
    <2> QED
        BY <2>1, <2>2 DEF LateAtWork
<1>5. ASSUME NEW c \in calls, Work(c) \/ Fails(c) PROVE LateAtWork'
    <2>1. c.ok \in BOOLEAN /\ c.fresh \subseteq Content(c).events
        BY <1>1, CallFacts
    <2>2. CASE IsProcessed(c)
        BY <2>2, LateAnswer, LateGoes DEF IsProcessed, At, Steps, UnderLock, Processing, history
    <2>3. CASE AcquireLock(c)
        BY <2>3, LateAnswer, LateGoes DEF AcquireLock, At, Steps, UnderLock, Processing
    <2>4. CASE IsProcessedAfterLock(c)
        BY <2>4, LateGoes DEF IsProcessedAfterLock, Steps, UnderLock, Processing, history
    <2>5. CASE Begin(c)
        <3>1. PICK step \in {"mark", "effects"}, fresh \in SUBSET Content(c).events : Moves(c, step, fresh, c.ok)
            BY <2>5 DEF Begin
        <3>2. step \in Steps /\ step \in UnderLock
            BY DEF Steps, UnderLock, Processing
        <3> QED
            BY <2>1, <2>5, <3>1, <3>2, LateMoves DEF Begin
    <2>6. CASE Effects(c)
        BY <2>6, LateGoes DEF Effects, Steps, UnderLock, Processing, history
    <2>7. CASE Count(c)
        BY <2>7, LateGoes DEF Count, Steps, UnderLock, Processing, history
    <2>8. CASE Mark(c)
        BY <2>8, LateGoes DEF Mark, Steps, UnderLock, Processing, history
    <2>9. CASE ReleaseLock(c)
        BY <2>9, LateAnswer DEF ReleaseLock
    <2>10. CASE Fails(c)
        BY <2>1, <2>10, LateMoves DEF Fails, Steps, UnderLock, Processing
    <2> QED
        BY <1>5, <2>2, <2>3, <2>4, <2>5, <2>6, <2>7, <2>8, <2>9, <2>10 DEF Work
<1>6. CASE (\E m \in Messages : Deliver(m) \/ TimesOut(m)) \/ UNCHANGED vars
    BY <1>2, <1>6 DEF Deliver, TimesOut, vars, history
<1> QED
    BY <1>3, <1>4, <1>5, <1>6 DEF Next, Working, Trouble, Expiry
\* What a step adds to a counter.
LEMMA CountAdds ==
    ASSUME TypeOK, NEW events, CountEvents(events)
    PROVE  \A e \in Events : count'[e] = (IF e \in events THEN count[e] + 1 ELSE count[e])
BY DEF TypeOK, CountEvents

One(b) == IF b THEN 1 ELSE 0

\* How many calls are still to count the content of a call that goes on.
LEMMA MovedSize ==
    ASSUME LockInv, NEW c \in calls, NEW step \in Steps, NEW fresh, fresh \subseteq Content(c).events,
           NEW ok \in BOOLEAN, Moves(c, step, fresh, ok), UNCHANGED load, UNCHANGED outlived,
           NEW k, k = Content(c), IsFiniteSet(Yet(k))
    PROVE  /\ IsFiniteSet(Yet(k)')
           /\ Cardinality(Yet(k)') + One(Counting(c, c.at)) = Cardinality(Yet(k)) + One(Counting(c, step))
<1>1. PICK S, t : S = Yet(k) /\ t = Token(c)
    OBVIOUS
<1>2. PICK T : T = Yet(k)'
    OBVIOUS
<1>3. /\ Counting(c, step) => T = S \cup {t}
      /\ ~Counting(c, step) => T = S \ {t}
      /\ Counting(c, c.at) <=> t \in S
    <2>1. Yet(k)' = Yet(Content(c))'
        BY DEF Yet, Content
    <2> QED
        BY <1>1, <1>2, <2>1, MovedSets
<1>4. IsFiniteSet(S) /\ Cardinality(S) \in Nat
    BY <1>1, FS_CardinalityType
<1>5. /\ IsFiniteSet(S \cup {t})
      /\ Cardinality(S \cup {t}) = IF t \in S THEN Cardinality(S) ELSE Cardinality(S) + 1
    BY <1>4, FS_AddElement
<1>6. /\ IsFiniteSet(S \ {t})
      /\ Cardinality(S \ {t}) = IF t \in S THEN Cardinality(S) - 1 ELSE Cardinality(S)
    BY <1>4, FS_RemoveElement
<1>7. CASE Counting(c, step)
    <2>1. T = S \cup {t} /\ One(Counting(c, step)) = 1
        BY <1>3, <1>7 DEF One
    <2>2. One(Counting(c, c.at)) = IF t \in S THEN 1 ELSE 0
        BY <1>3 DEF One
    <2>3. IsFiniteSet(T) /\ Cardinality(T) = IF t \in S THEN Cardinality(S) ELSE Cardinality(S) + 1
        BY <1>5, <2>1
    <2>4. Cardinality(T) + One(Counting(c, c.at)) = Cardinality(S) + One(Counting(c, step))
        BY <1>4, <2>1, <2>2, <2>3
    <2> QED
        BY <1>1, <1>2, <2>3, <2>4
<1>8. CASE ~Counting(c, step)
    <2>1. T = S \ {t} /\ One(Counting(c, step)) = 0
        BY <1>3, <1>8 DEF One
    <2>2. One(Counting(c, c.at)) = IF t \in S THEN 1 ELSE 0
        BY <1>3 DEF One
    <2>3. IsFiniteSet(T) /\ Cardinality(T) = IF t \in S THEN Cardinality(S) - 1 ELSE Cardinality(S)
        BY <1>6, <2>1
    <2>4. Cardinality(T) + One(Counting(c, c.at)) = Cardinality(S) + One(Counting(c, step))
        BY <1>4, <2>1, <2>2, <2>3
    <2> QED
        BY <1>1, <1>2, <2>3, <2>4
<1> QED
    BY <1>7, <1>8

\* A content that is not that of the call.
LEMMA OtherPays ==
    ASSUME PaidInv, TypeOK', NEW c \in calls, NEW j \in Contents \ {Content(c)},
           Yet(j)' = Yet(j), InTime(j) => InTime(j)', processed \subseteq processed', again[j] <= again'[j],
           UNCHANGED count \/ \E events \in SUBSET Content(c).events : CountEvents(events)
    PROVE  Pays(j)
<1>1. TypeOK /\ c.message \in Messages /\ Paid(j)
    BY CallFacts DEF PaidInv, LockInv
<1>2. First(j) <= First(j)'
    BY DEF First
<1>3. ASSUME NEW e \in j.events, Only(e, j) PROVE count'[e] = count[e]
    <2>1. e \notin Content(c).events /\ e \in Events
        BY <1>1, <1>3 DEF Only, Content, Contents
    <2> QED
        BY <1>1, <2>1, CountAdds
<1> QED
    BY <1>1, <1>2, <1>3, QuietPays

\* The content of a call that goes on, which adds more to the counters and is paid for.
LEMMA OwnPays ==
    ASSUME PaidInv, TypeOK', NEW c \in calls, NEW step \in Steps, NEW fresh, fresh \subseteq Content(c).events,
           NEW ok \in BOOLEAN, Moves(c, step, fresh, ok), UNCHANGED load, UNCHANGED outlived,
           NEW k \in Contents, k = Content(c),
           NEW more \in Nat, \A e \in k.events : count'[e] <= count[e] + more,
           NEW paid \in Nat, again'[k] = again[k] + paid,
           First(k) + more + One(Counting(c, step)) <= First(k)' + One(Counting(c, c.at)) + paid
    PROVE  Pays(k)
<1>1. TypeOK /\ LockInv /\ Paid(k)
    BY DEF PaidInv, LockInv
<1>2. /\ IsFiniteSet(Yet(k)')
      /\ Cardinality(Yet(k)') + One(Counting(c, c.at)) = Cardinality(Yet(k)) + One(Counting(c, step))
    BY <1>1, MovedSize DEF Paid
<1>3. Cardinality(Yet(k)) \in Nat /\ Cardinality(Yet(k)') \in Nat
    BY <1>1, <1>2, FS_CardinalityType DEF Paid
<1>4. First(k) \in Nat /\ First(k)' \in Nat
    BY DEF First
<1>5. again[k] \in Nat /\ again'[k] \in Nat /\ One(Counting(c, c.at)) \in Nat /\ One(Counting(c, step)) \in Nat
    BY <1>1 DEF TypeOK, One
<1>6. ASSUME NEW e \in k.events
      PROVE  count'[e] + Cardinality(Yet(k)') + again[k] + First(k)
                <= count[e] + Cardinality(Yet(k)) + again'[k] + First(k)'
    <2>1. count[e] \in Nat /\ count'[e] \in Nat /\ count'[e] <= count[e] + more
        BY <1>1 DEF TypeOK, Contents
    <2> QED
        BY <1>2, <1>3, <1>4, <1>5, <2>1
<1> QED
    BY <1>2, <1>6 DEF Pays
\* Only one call at a time is timely with a content.
LEMMA TimelyHasLock ==
    ASSUME LockInv, NEW c \in calls, c.at \in UnderLock, Token(c) \notin outlived,
           InTime(Content(c))
    PROVE  Timely(c)
<1>1. PICK b \in calls : Content(b) = Content(c) /\ Timely(b)
    BY DEF InTime
<1>2. lock[Content(c)] = Token(c) /\ lock[Content(c)] = Token(b)
    BY <1>1 DEF LockInv, HoldsItsLock, Timely, UnderLock
<1> QED
    BY <1>1, <1>2 DEF LockInv, OneCallEach

\* An answered call.
LEMMA AnswerPays ==
    ASSUME PaidInv, TypeOK', NEW c \in calls, NEW ok, Answer(c, ok), c.at \in {"check", "lock", "release"},
           UNCHANGED <<load, processed, count, again>>,
           outlived' \subseteq outlived, outlived \ {Token(c)} \subseteq outlived'
    PROVE  \A j \in Contents : Pays(j)
<1> SUFFICES ASSUME NEW j \in Contents PROVE Pays(j)
    OBVIOUS
<1>1. TypeOK /\ LockInv /\ Paid(j)
    BY DEF PaidInv, LockInv
<1>2. Yet(j)' = Yet(j) /\ (InTime(j)' <=> InTime(j))
    BY <1>1, AnswerSets
<1>3. First(j) <= First(j)'
    BY <1>2 DEF First
<1>4. again[j] <= again'[j]
    BY <1>1 DEF TypeOK
<1> QED
    BY <1>1, <1>2, <1>3, <1>4, QuietPays

\* The contents that are not that of a call that goes on.
LEMMA MovesPays ==
    ASSUME PaidInv, TypeOK', NEW c \in calls, NEW step \in Steps, NEW fresh, fresh \subseteq Content(c).events,
           NEW ok \in BOOLEAN, Moves(c, step, fresh, ok), UNCHANGED load, UNCHANGED outlived,
           processed \subseteq processed',
           again' = again \/ again' = [again EXCEPT ![Content(c)] = @ + 1],
           UNCHANGED count \/ \E events \in SUBSET Content(c).events : CountEvents(events),
           Pays(Content(c))
    PROVE  \A j \in Contents : Pays(j)
<1> SUFFICES ASSUME NEW j \in Contents \ {Content(c)} PROVE Pays(j)
    OBVIOUS
<1>1. LockInv /\ TypeOK
    BY DEF PaidInv, LockInv
<1>2. Yet(j)' = Yet(j) /\ (InTime(j)' <=> InTime(j))
    BY <1>1, MovedSets
<1>3. again[j] <= again'[j]
    BY <1>1 DEF TypeOK
<1> QED
    BY <1>2, <1>3, OtherPays
\* Somebody who is first stays so, or leaves the marker; the call itself may have been it.
LEMMA FirstMoves ==
    ASSUME LockInv, NEW c \in calls, NEW step \in Steps, NEW fresh, fresh \subseteq Content(c).events,
           NEW ok \in BOOLEAN, Moves(c, step, fresh, ok), UNCHANGED load, UNCHANGED outlived,
           processed \subseteq processed', NEW k, k = Content(c)
    PROVE  /\ First(k) \in 0..1 /\ First(k)' \in 0..1
           /\ First(k) <= First(k)' \/ (Timely(c) /\ step \notin Processing)
           /\ k \in processed' => First(k)' = 1
           /\ step \in Processing /\ Token(c) \notin outlived => First(k)' = 1
<1>1. /\ step \in Processing /\ Token(c) \notin outlived => InTime(k)'
      /\ InTime(k) => InTime(k)' \/ (Timely(c) /\ step \notin Processing)
    <2>1. InTime(k)' <=> InTime(Content(c))'
        BY DEF InTime, Content
    <2> QED
        BY <2>1, MovedSets
<1> QED
    BY <1>1 DEF First

\* The steps of a call pay for what they add, for every content.
LEMMA PaysWork ==
    ASSUME PaidInv, TypeOK', NEW c \in calls, Work(c) \/ Fails(c)
    PROVE  \A j \in Contents : Pays(j)
<1>1. /\ TypeOK /\ LockInv /\ Content(c) \in Contents /\ c.ok \in BOOLEAN
      /\ c.fresh \subseteq Content(c).events /\ Content(c).events \subseteq Events
    BY CallFacts DEF PaidInv, LockInv
<1>2. PICK k \in Contents : k = Content(c)
    BY <1>1
<1>3. \A e \in Events : count[e] \in Nat
    BY <1>1 DEF TypeOK
<1>4. Pays(k) => Pays(Content(c))
    BY <1>2
<1>5. ASSUME UNCHANGED count PROVE \A e \in k.events : count'[e] <= count[e] + 0
    BY <1>1, <1>2, <1>3, <1>5
<1>6. ASSUME UNCHANGED again PROVE again'[k] = again[k] + 0
    BY <1>1, <1>6 DEF TypeOK
<1>7. ASSUME NEW events, CountEvents(events) PROVE \A e \in k.events : count'[e] <= count[e] + 1
    BY <1>1, <1>2, <1>3, <1>7, CountAdds
<1>8. CASE IsProcessed(c)
    <2>1. CASE Goes(c, "lock")
        <3>1. /\ "lock" \in Steps /\ c.at = "check" /\ UNCHANGED load /\ UNCHANGED outlived
              /\ UNCHANGED processed /\ UNCHANGED count /\ UNCHANGED again
            BY <1>8 DEF IsProcessed, At, Steps, redis, history
        <3>2. Moves(c, "lock", c.fresh, c.ok)
            BY <2>1 DEF Goes
        <3>3. First(k) \in 0..1 /\ First(k)' \in 0..1 /\ First(k) <= First(k)'
            BY <1>1, <1>2, <3>1, <3>2, FirstMoves DEF Timely, Processing
        <3>4. One(Counting(c, "lock")) = 0 /\ One(Counting(c, c.at)) = 0
            BY <3>1 DEF One, Counting
        <3>5. First(k) + 0 + One(Counting(c, "lock")) <= First(k)' + One(Counting(c, c.at)) + 0
            BY <3>3, <3>4
        <3>6. Pays(k)
            BY <1>1, <1>2, <1>5, <1>6, <3>1, <3>2, <3>5, OwnPays
        <3> QED
            BY <1>1, <1>4, <3>1, <3>2, <3>6, MovesPays
    <2>2. CASE Answer(c, TRUE)
        BY <1>8, <2>2, AnswerPays DEF IsProcessed, At, redis, history
    <2> QED
        BY <1>8, <2>1, <2>2 DEF IsProcessed
<1>9. CASE AcquireLock(c)
    <2>1. CASE Goes(c, "recheck")
        <3>1. /\ "recheck" \in Steps /\ c.at = "lock" /\ UNCHANGED load /\ UNCHANGED outlived
              /\ UNCHANGED processed /\ UNCHANGED count /\ UNCHANGED again
            BY <1>9 DEF AcquireLock, At, Steps
        <3>2. Moves(c, "recheck", c.fresh, c.ok)
            BY <2>1 DEF Goes
        <3>3. First(k) \in 0..1 /\ First(k)' \in 0..1 /\ First(k) <= First(k)'
            BY <1>1, <1>2, <3>1, <3>2, FirstMoves DEF Timely, Processing
        <3>4. Token(c) \notin outlived
            BY <1>1, <3>1 DEF PaidInv, LateAtWork, LockInv, OneCallEach, UnderLock, Processing
        <3>5. One(Counting(c, "recheck")) = 0 /\ One(Counting(c, c.at)) = 0
            BY <3>1, <3>4 DEF One, Counting
        <3>6. Pays(k)
            BY <1>1, <1>2, <1>5, <1>6, <3>1, <3>2, <3>3, <3>5, OwnPays
        <3> QED
            BY <1>1, <1>4, <3>1, <3>2, <3>6, MovesPays
    <2>2. CASE Answer(c, TRUE)
        BY <1>9, <2>2, AnswerPays DEF AcquireLock, At
    <2> QED
        BY <1>9, <2>1, <2>2 DEF AcquireLock
<1>10. CASE IsProcessedAfterLock(c)
    <2>1. /\ c.at = "recheck" /\ UNCHANGED load /\ UNCHANGED outlived
          /\ UNCHANGED processed /\ UNCHANGED count /\ UNCHANGED again
        BY <1>10 DEF IsProcessedAfterLock, At, redis, history
    <2>2. CASE k \in processed
        <3>1. "release" \in Steps /\ Moves(c, "release", c.fresh, c.ok)
            BY <1>2, <1>10, <2>2 DEF IsProcessedAfterLock, Goes, Steps
        <3>2. First(k) = 1 /\ First(k)' = 1
            BY <2>1, <2>2 DEF First
        <3>3. One(Counting(c, "release")) = 0 /\ One(Counting(c, c.at)) \in 0..1
            BY DEF One, Counting
        <3>4. Pays(k)
            BY <1>1, <1>2, <1>5, <1>6, <2>1, <3>1, <3>2, <3>3, OwnPays
        <3> QED
            BY <1>1, <1>4, <2>1, <3>1, <3>4, MovesPays
    <2>3. CASE k \notin processed
        <3>1. "begin" \in Steps /\ Moves(c, "begin", c.fresh, c.ok)
            BY <1>2, <1>10, <2>3 DEF IsProcessedAfterLock, Goes, Steps
        <3>2. /\ First(k) \in 0..1 /\ First(k)' \in 0..1 /\ First(k) <= First(k)'
              /\ Token(c) \notin outlived => First(k)' = 1
            BY <1>1, <1>2, <2>1, <3>1, FirstMoves DEF Timely, Processing
        <3>3. Token(c) \notin outlived => First(k) = 0
            BY <1>1, <1>2, <2>1, <2>3, TimelyHasLock DEF First, Timely, UnderLock, Processing
        <3>4. One(Counting(c, "begin")) = 1 /\ One(Counting(c, c.at)) = One(Token(c) \in outlived)
            BY <2>1 DEF One, Counting
        <3>5. First(k) + 0 + One(Counting(c, "begin")) <= First(k)' + One(Counting(c, c.at)) + 0
            BY <3>2, <3>3, <3>4 DEF One
        <3>6. Pays(k)
            BY <1>1, <1>2, <1>5, <1>6, <2>1, <3>1, <3>5, OwnPays
        <3> QED
            BY <1>1, <1>4, <2>1, <3>1, <3>6, MovesPays
    <2> QED
        BY <2>2, <2>3
<1>11. CASE Begin(c)
    <2> DEFINE taken == IF Mail(c) THEN Content(c).events \ seen ELSE Content(c).events
    <2>1. PICK fresh, step : fresh = taken /\ step = IF taken = {} THEN "mark" ELSE "effects"
        OBVIOUS
    <2>2. /\ c.at = "begin" /\ UNCHANGED load /\ UNCHANGED outlived
          /\ UNCHANGED processed /\ UNCHANGED again
          /\ Moves(c, step, fresh, c.ok)
          /\ IF CountsFirst(c) THEN CountEvents(fresh) ELSE UNCHANGED count
        BY <1>11, <2>1 DEF Begin, At
    <2>3. step \in Steps /\ step \in {"mark", "effects"} /\ fresh \subseteq Content(c).events
        BY <2>1 DEF Steps
    <2> HIDE DEF taken
    <2>4. First(k) \in 0..1 /\ First(k)' \in 0..1 /\ First(k) <= First(k)'
        BY <1>1, <1>2, <2>2, <2>3, FirstMoves DEF Processing
    <2>5. One(Counting(c, c.at)) = 1
        BY <2>2 DEF One, Counting
    <2>6. CASE CountsFirst(c)
        <3>1. One(Counting(c, step)) = 0 /\ CountEvents(fresh)
            BY <2>2, <2>3, <2>6 DEF One, Counting
        <3>2. First(k) + 1 + One(Counting(c, step)) <= First(k)' + One(Counting(c, c.at)) + 0
            BY <2>4, <2>5, <3>1
        <3>3. \A e \in k.events : count'[e] <= count[e] + 1
            BY <1>7, <3>1
        <3>4. Pays(k)
            BY <1>1, <1>2, <1>6, <2>2, <2>3, <3>2, <3>3, OwnPays
        <3> QED
            BY <1>1, <1>4, <2>2, <2>3, <3>1, <3>4, MovesPays
    <2>7. CASE ~CountsFirst(c)
        <3>1. One(Counting(c, step)) \in 0..1 /\ UNCHANGED count
            BY <2>2, <2>7 DEF One
        <3>2. First(k) + 0 + One(Counting(c, step)) <= First(k)' + One(Counting(c, c.at)) + 0
            BY <2>4, <2>5, <3>1
        <3>3. Pays(k)
            BY <1>1, <1>2, <1>5, <1>6, <2>2, <2>3, <3>1, <3>2, OwnPays
        <3> QED
            BY <1>1, <1>4, <2>2, <2>3, <3>1, <3>3, MovesPays
    <2> QED
        BY <2>6, <2>7
<1>12. CASE Effects(c)
    <2>1. PICK step : step = IF CountsFirst(c) THEN "mark" ELSE "count"
        OBVIOUS
    <2>2. /\ c.at = "effects" /\ UNCHANGED load /\ UNCHANGED outlived
          /\ UNCHANGED processed /\ UNCHANGED count /\ UNCHANGED again
          /\ Moves(c, step, c.fresh, c.ok) /\ step \in Steps /\ step \in Processing
        BY <1>12, <2>1 DEF Effects, At, Goes, redis, history, Steps, Processing
    <2>3. First(k) \in 0..1 /\ First(k)' \in 0..1 /\ First(k) <= First(k)'
        BY <1>1, <1>2, <2>2, FirstMoves
    <2>4. One(Counting(c, c.at)) = One(Counting(c, step)) /\ One(Counting(c, step)) \in 0..1
        BY <2>1, <2>2 DEF One, Counting
    <2>5. First(k) + 0 + One(Counting(c, step)) <= First(k)' + One(Counting(c, c.at)) + 0
        BY <2>3, <2>4
    <2>6. Pays(k)
        BY <1>1, <1>2, <1>5, <1>6, <2>2, <2>5, OwnPays
    <2> QED
        BY <1>1, <1>4, <2>2, <2>6, MovesPays
<1>13. CASE Count(c)
    <2>1. /\ c.at = "count" /\ UNCHANGED load /\ UNCHANGED outlived
          /\ UNCHANGED processed /\ CountEvents(c.fresh) /\ UNCHANGED again
          /\ Moves(c, "mark", c.fresh, c.ok) /\ "mark" \in Steps /\ "mark" \in Processing
        BY <1>13 DEF Count, At, Goes, history, Steps, Processing
    <2>2. First(k) \in 0..1 /\ First(k)' \in 0..1 /\ First(k) <= First(k)'
        BY <1>1, <1>2, <2>1, FirstMoves
    <2>3. One(Counting(c, c.at)) = 1 /\ One(Counting(c, "mark")) = 0
        BY <2>1 DEF One, Counting
    <2>4. First(k) + 1 + One(Counting(c, "mark")) <= First(k)' + One(Counting(c, c.at)) + 0
        BY <2>2, <2>3
    <2>5. \A e \in k.events : count'[e] <= count[e] + 1
        BY <1>7, <2>1
    <2>6. Pays(k)
        BY <1>1, <1>2, <1>6, <2>1, <2>4, <2>5, OwnPays
    <2> QED
        BY <1>1, <1>4, <2>1, <2>6, MovesPays
<1>14. CASE Mark(c)
    <2>1. /\ c.at = "mark" /\ UNCHANGED load /\ UNCHANGED outlived
          /\ processed' = processed \cup {k} /\ UNCHANGED count /\ UNCHANGED again
          /\ Moves(c, "release", c.fresh, c.ok) /\ "release" \in Steps
        BY <1>2, <1>14 DEF Mark, At, Goes, history, Steps
    <2>2. First(k) \in 0..1 /\ First(k)' = 1
        BY <2>1 DEF First
    <2>3. One(Counting(c, c.at)) = 0 /\ One(Counting(c, "release")) = 0
        BY <2>1 DEF One, Counting
    <2>4. First(k) + 0 + One(Counting(c, "release")) <= First(k)' + One(Counting(c, c.at)) + 0
        BY <2>2, <2>3
    <2>5. Pays(k)
        BY <1>1, <1>2, <1>5, <1>6, <2>1, <2>4, OwnPays
    <2> QED
        BY <1>1, <1>4, <2>1, <2>5, MovesPays
<1>15. CASE ReleaseLock(c)
    <2>1. /\ c.at = "release" /\ Answer(c, c.ok) /\ UNCHANGED <<load, processed, count, again>>
          /\ outlived' = outlived \ {Token(c)}
        BY <1>15 DEF ReleaseLock, At
    <2> QED
        BY <2>1, AnswerPays
<1>16. CASE Fails(c)
    <2>1. /\ UNCHANGED load /\ UNCHANGED outlived /\ UNCHANGED processed /\ UNCHANGED count
          /\ again' = [again EXCEPT ![Content(c)] = @ + 1]
          /\ Moves(c, "release", c.fresh, FALSE) /\ "release" \in Steps
        BY <1>16 DEF Fails, redis, Steps
    <2>2. First(k) \in 0..1 /\ First(k)' \in 0..1
        BY DEF First
    <2>3. One(Counting(c, c.at)) \in 0..1 /\ One(Counting(c, "release")) = 0
        BY DEF One, Counting
    <2>4. First(k) + 0 + One(Counting(c, "release")) <= First(k)' + One(Counting(c, c.at)) + 1
        BY <2>2, <2>3
    <2>5. again'[k] = again[k] + 1
        BY <1>1, <1>2, <2>1 DEF TypeOK
    <2>6. Pays(k)
        <3>1. PICK fresh, ok : fresh = c.fresh /\ ok = FALSE
            OBVIOUS
        <3>2. fresh \subseteq Content(c).events /\ ok \in BOOLEAN /\ Moves(c, "release", fresh, ok)
            BY <1>1, <2>1, <3>1
        <3> QED
            BY <1>2, <1>5, <2>1, <2>4, <2>5, <3>2, OwnPays
    <2> QED
        BY <1>1, <1>4, <2>1, <2>6, MovesPays
<1> QED
    BY <1>8, <1>9, <1>10, <1>11, <1>12, <1>13, <1>14, <1>15, <1>16 DEF Work
\* A step that leaves the calls at work as they are, and counts nothing.
LEMMA StillPays ==
    ASSUME PaidInv, TypeOK', UNCHANGED <<load, processed, count, again, outlived>>,
           calls \subseteq calls', \A c \in calls' : c \in calls \/ c.at = "check"
    PROVE  \A j \in Contents : Pays(j)
<1> SUFFICES ASSUME NEW j \in Contents PROVE Pays(j)
    OBVIOUS
<1>1. TypeOK /\ Paid(j)
    BY DEF PaidInv, LockInv
<1>2. \A c : /\ Content(c)' = Content(c) /\ Token(c)' = Token(c) /\ (Timely(c)' <=> Timely(c))
             /\ (Counting(c, c.at)' <=> Counting(c, c.at))
             /\ (c.at = "check" => ~Counting(c, c.at) /\ ~Timely(c))
    BY DEF Content, Token, Timely, Counting, CountsFirst, Processing
<1>3. Yet(j)' = Yet(j) /\ (InTime(j) <=> InTime(j)')
    BY <1>2 DEF Yet, InTime
<1>4. First(j) <= First(j)'
    BY <1>3 DEF First
<1>5. again[j] <= again'[j]
    BY <1>1 DEF TypeOK
<1> QED
    BY <1>1, <1>3, <1>4, <1>5, QuietPays

\* Calls that die had counted what they had paid for, and one more at most.
LEMMA CrashPays ==
    ASSUME PaidInv, TypeOK', Crash
    PROVE  \A j \in Contents : Pays(j)
<1> SUFFICES ASSUME NEW j \in Contents PROVE Pays(j)
    OBVIOUS
<1>1. TypeOK /\ Paid(j)
    BY DEF PaidInv, LockInv
<1>2. calls' = {} /\ UNCHANGED <<load, processed, count>>
    BY DEF Crash, redis
<1>3. Yet(j)' = {} /\ ~InTime(j)'
    BY <1>2 DEF Yet, InTime
<1>4. IsFiniteSet(Yet(j)') /\ Cardinality(Yet(j)') = 0 /\ Cardinality(Yet(j)) \in Nat
    BY <1>1, <1>3, FS_EmptySet, FS_CardinalityType DEF Paid
<1>5. again'[j] \in Nat /\ again[j] \in Nat /\ again[j] <= again'[j]
      /\ (InTime(j) => again'[j] = again[j] + 1)
    BY <1>1 DEF Crash, TypeOK, InTime, Timely
<1>6. First(j) \in Nat /\ First(j)' \in Nat /\ again[j] + First(j) <= again'[j] + First(j)'
    BY <1>2, <1>5 DEF First
<1>7. ASSUME NEW e \in j.events
      PROVE  count'[e] + Cardinality(Yet(j)') + again[j] + First(j)
                <= count[e] + Cardinality(Yet(j)) + again'[j] + First(j)'
    <2>1. count[e] \in Nat /\ count'[e] = count[e]
        BY <1>1, <1>2 DEF TypeOK, Contents
    <2> QED
        BY <1>4, <1>5, <1>6, <2>1
<1> QED
    BY <1>4, <1>7 DEF Pays

\* A lock that expires while its call is at work: the call is no longer timely, or is
\* still to look for the marker, and has paid.
LEMMA ExpiryPays ==
    ASSUME PaidInv, TypeOK', NEW k \in Contents, LockExpires(k)
    PROVE  \A j \in Contents : Pays(j)
<1>1. TypeOK /\ LockInv /\ lock[k] # Free /\ load[lock[k][1]] = k
    BY DEF PaidInv, LockInv, LockExpires, LocksOwn
<1>2. UNCHANGED <<load, calls, processed, count>>
    BY DEF LockExpires, broker
<1>3. CASE UNCHANGED outlived /\ UNCHANGED again
    BY <1>2, <1>3, StillPays
<1>4. ASSUME NEW c \in calls, c.at \in UnderLock, Token(c) = lock[k], outlived' = outlived \cup {lock[k]},
             again' = [again EXCEPT ![k] = @ + 1], NEW j \in Contents
      PROVE  Pays(j)
    <2>1. Content(c) = k
        BY <1>1, <1>4 DEF Token, Content
    <2>2. \A b \in calls : /\ Content(b)' = Content(b) /\ Token(b)' = Token(b)
                           /\ (b # c => Token(b) # lock[k])
        BY <1>1, <1>2, <1>4 DEF Content, Token, LockInv, OneCallEach
    <2>3. \A b \in calls \ {c} : (Timely(b)' <=> Timely(b)) /\ (Counting(b, b.at)' <=> Counting(b, b.at))
        BY <1>2, <1>4, <2>2 DEF Timely, Counting, CountsFirst
    <2>4. CASE j # k
        <3>1. Yet(j)' = Yet(j) /\ (InTime(j)' <=> InTime(j))
            BY <1>2, <2>1, <2>2, <2>3, <2>4 DEF Yet, InTime
        <3>2. First(j) <= First(j)'
            BY <1>2, <3>1 DEF First
        <3>3. again[j] <= again'[j] /\ UNCHANGED count /\ Paid(j)
            BY <1>1, <1>2, <1>4, <2>4 DEF TypeOK, PaidInv
        <3> QED
            BY <1>1, <3>1, <3>2, <3>3, QuietPays
    <2>5. CASE j = k
        <3>1. PICK S : S = Yet(k)
            OBVIOUS
        <3>2. PICK T : T = Yet(k)'
            OBVIOUS
        <3>3. T = S \/ (T = S \cup {lock[k]} /\ (InTime(k) => InTime(k)'))
            <4>1. CASE c.at = "recheck"
                <5>1. T \subseteq S \cup {lock[k]} /\ S \subseteq T
                    BY <1>2, <1>4, <2>1, <2>2, <2>3, <3>1, <3>2, <4>1 DEF Yet, Counting
                <5>2. T = S \/ T = S \cup {lock[k]}
                    BY <5>1
                <5>3. InTime(k) => InTime(k)'
                    BY <1>2, <2>2, <2>3, <4>1 DEF InTime, Timely, Processing
                <5> QED
                    BY <5>2, <5>3
            <4>2. CASE c.at # "recheck"
                <5>1. Counting(c, c.at)' <=> Counting(c, c.at)
                    BY <1>2, <4>2 DEF Counting, CountsFirst, Content
                <5>2. T = S
                    BY <1>2, <2>2, <2>3, <3>1, <3>2, <5>1 DEF Yet
                <5> QED
                    BY <5>2
            <4> QED
                BY <4>1, <4>2
        <3>4. Paid(k) /\ IsFiniteSet(S) /\ Cardinality(S) \in Nat
            BY <3>1, FS_CardinalityType DEF PaidInv, Paid
        <3>5. IsFiniteSet(S \cup {lock[k]}) /\ Cardinality(S \cup {lock[k]}) \in Nat
              /\ Cardinality(S \cup {lock[k]}) <= Cardinality(S) + 1
            <4>1. /\ IsFiniteSet(S \cup {lock[k]})
                  /\ Cardinality(S \cup {lock[k]}) = IF lock[k] \in S THEN Cardinality(S) ELSE Cardinality(S) + 1
                BY <3>4, FS_AddElement
            <4> QED
                BY <3>4, <4>1
        <3>6. First(k) \in 0..1 /\ First(k)' \in 0..1 /\ ((InTime(k) => InTime(k)') => First(k) <= First(k)')
            BY <1>2 DEF First
        <3>7. IsFiniteSet(T) /\ Cardinality(T) \in Nat /\ Cardinality(T) + First(k) <= Cardinality(S) + 1 + First(k)'
            <4>1. CASE T = S
                BY <3>4, <3>6, <4>1
            <4>2. CASE T = S \cup {lock[k]} /\ First(k) <= First(k)'
                BY <3>4, <3>5, <3>6, <4>2
            <4> QED
                BY <3>3, <3>6, <4>1, <4>2
        <3>8. again[k] \in Nat /\ again'[k] = again[k] + 1
            BY <1>1, <1>4 DEF TypeOK
        <3>9. ASSUME NEW e \in k.events
              PROVE  count'[e] + Cardinality(T) + again[k] + First(k)
                        <= count[e] + Cardinality(S) + again'[k] + First(k)'
            <4>1. count[e] \in Nat /\ count'[e] = count[e]
                BY <1>1, <1>2 DEF TypeOK, Contents
            <4> QED
                BY <3>4, <3>6, <3>7, <3>8, <4>1
        <3>10. Pays(k)
            BY <3>1, <3>2, <3>7, <3>9 DEF Pays
        <3> QED
            BY <2>5, <3>10
    <2> QED
        BY <2>4, <2>5
<1> QED
    BY <1>3, <1>4 DEF LockExpires

\* Every step keeps the contents paid for.
LEMMA PaidStep == PaidInv /\ [Next]_vars => PaidInv'
<1> SUFFICES ASSUME PaidInv, [Next]_vars PROVE PaidInv'
    OBVIOUS
<1>1. LockInv /\ TypeOK /\ LockInv' /\ TypeOK' /\ LocksOwn /\ LateAtWork /\ \A j \in Contents : Paid(j)
    BY LockStep DEF PaidInv, LockInv
<1>2. LocksOwn' /\ LateAtWork'
    BY <1>1, OwnStep, LateStep
<1>3. \A j \in Contents : Pays(j)
    <2>1. CASE (\E m \in Messages : Deliver(m) \/ TimesOut(m)) \/ UNCHANGED vars
        <3>1. /\ UNCHANGED <<load, processed, count, again, outlived>> /\ calls \subseteq calls'
              /\ \A c \in calls' : c \in calls \/ c.at = "check"
            BY <2>1 DEF Deliver, TimesOut, vars, redis, history
        <3> QED
            BY <1>1, <3>1, StillPays
    <2>2. CASE Crash
        BY <1>1, <2>2, CrashPays
    <2>3. CASE Expiry
        BY <1>1, <2>3, ExpiryPays DEF Expiry
    <2>4. CASE \E c \in calls : Work(c) \/ Fails(c)
        BY <1>1, <2>4, PaysWork
    <2> QED
        BY <2>1, <2>2, <2>3, <2>4 DEF Next, Working, Trouble
<1>4. UNCHANGED load
    BY DEF Next, Working, Trouble, Expiry, Work, Deliver, TimesOut, Crash, LockExpires, vars,
       IsProcessed,
           AcquireLock, IsProcessedAfterLock, Begin, Effects, Count, Mark, ReleaseLock, Fails
<1>5. \A j \in Contents : Paid(j)'
    BY <1>1, <1>3, <1>4, PaysPaid
<1> QED
    BY <1>1, <1>2, <1>5 DEF PaidInv

\* An event that does not come from a mail provider is counted once, and once more at
\* most for every call that failed, crashed or was slower than its lock.
THEOREM CountedOnceAndPerFailure == Spec => []CountedOncePerFailure
<1>1. Init => PaidInv
    <2> SUFFICES ASSUME Init PROVE PaidInv
        OBVIOUS
    <2>1. TypeOK /\ LockInv
        BY TypeInit DEF Init, LockInv, HoldsItsLock, AttemptsGrow, OneCallEach
    <2>2. LocksOwn /\ LateAtWork
        BY DEF Init, LocksOwn, LateAtWork
    <2>3. ASSUME NEW k \in Contents PROVE Paid(k)
        <3>1. Yet(k) = {} /\ again[k] = 0 /\ First(k) = 0
            BY DEF Init, Yet, First, InTime
        <3>2. \A e \in k.events : count[e] = 0
            BY DEF Init, Contents
        <3> QED
            BY <3>1, <3>2, FS_EmptySet DEF Paid
    <2> QED
        BY <2>1, <2>2, <2>3 DEF PaidInv
<1>2. PaidInv => CountedOncePerFailure
    <2> SUFFICES ASSUME PaidInv, NEW m \in Messages, NEW e \in load[m].events, OneContent(e)
                 PROVE  count[e] <= 1 + again[load[m]]
        BY DEF CountedOncePerFailure
    <2>1. PICK k \in Contents : k = load[m]
        BY EventProcessAssumption DEF PaidInv, LockInv, TypeOK
    <2>2. Only(e, k) /\ e \in k.events
        BY <2>1 DEF OneContent, Only
    <2>3. Paid(k) /\ TypeOK
        BY DEF PaidInv, LockInv
    <2>4. Cardinality(Yet(k)) \in Nat /\ count[e] + Cardinality(Yet(k)) <= again[k] + First(k)
        BY <2>2, <2>3, FS_CardinalityType DEF Paid
    <2>5. count[e] \in Nat /\ again[k] \in Nat /\ First(k) \in 0..1
        <3>1. k.events \subseteq Events
            BY DEF Contents
        <3>2. count[e] \in Nat /\ again[k] \in Nat
            BY <2>2, <2>3, <3>1 DEF TypeOK
        <3>3. First(k) \in 0..1
            BY DEF First
        <3> QED
            BY <3>2, <3>3
    <2>6. count[e] <= 1 + again[k]
        BY <2>4, <2>5
    <2> QED
        BY <2>1, <2>6
<1> QED
    BY <1>1, <1>2, PaidStep, PTL DEF Spec
=============================================================================
