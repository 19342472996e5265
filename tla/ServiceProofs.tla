---------------------------- MODULE ServiceProofs ----------------------------
(***************************************************************************)
(* Proofs about the services around the queue, for any number of callers,  *)
(* streams, sources, tasks and steps.                                      *)
(*                                                                         *)
(* Calls of the language model: where a call stands bounds what it has     *)
(* asked and waited, and what it is about to store has been parsed.        *)
(* Progress bus: an event that a live stream has not shown and not dropped *)
(* is on its way to it, and a task's log is in order and in the past.      *)
(* Run view: only a step with a row has a status that is kept.             *)
(* Sources: every configuration in a file or a hand lists the sites that   *)
(* were added to it, and what a run has seen active is of a planned step.  *)
(***************************************************************************)
EXTENDS ModelCalls, ProgressBus, RunView, SourceIngest, TLAPS

-----------------------------------------------------------------------------
(* Calls of the language model                                              *)

Answers == [by : Callers \cup {""}, posts : Nat, parses : BOOLEAN]
CallPlaces == {"idle", "look_memory", "look_file", "ask", "ask_plain", "parse",
               "store_memory", "store", "done", "failed"}
CallRows == [at : CallPlaces, prompt : Prompts \cup Texts, attempt : Nat, posts : Nat,
             waited : Nat, calls : Nat, answer : Answers]

CallsTypeOK ==
  /\ cacheFile \in [Prompts \cup Texts -> Answers]
  /\ memory \in [Texts -> Answers]
  /\ call \in [Callers -> CallRows]

\* Whatever is kept has parsed, and an answer that came is no empty entry.
StoredParses ==
  /\ \A p \in Prompts \cup Texts : cacheFile[p].parses
  /\ \A t \in Texts : memory[t].parses

CallSound(c) ==
  /\ call[c].prompt \in Asks(c)
  /\ call[c].at \in {"parse", "store", "store_memory"} => call[c].answer.posts > 0
  /\ call[c].at \in {"store", "store_memory"} => call[c].answer.parses

\* A chat call is at an attempt, and has asked and waited no more than that.
AttemptSound(c) ==
  /\ call[c].at \notin {"look_memory", "store_memory"}
  /\ call[c].attempt \in 1 .. AttemptLimit
  /\ call[c].at = "failed" => \/ call[c].attempt = AttemptLimit
                              \/ ~call[c].answer.parses
                              \/ call[c].posts = 0
  /\ call[c].at = "look_file" => call[c].posts = 0
  /\ call[c].at \in {"look_file", "ask"} => call[c].posts <= 2 * call[c].attempt - 2
  /\ call[c].at = "ask_plain" => call[c].posts <= 2 * call[c].attempt - 1
  /\ call[c].posts <= 2 * call[c].attempt
  /\ call[c].waited <= 90 * call[c].attempt - 90

\* Only an embed call asks for a vector, and it is not asked for again.
VectorSound(c) == call[c].at \notin {"ask_plain", "parse"}

InFile ==
  CacheOn => /\ \A c \in ChatCallers : call[c].at = "done" => cacheFile[call[c].prompt] # Uncached
             /\ \A t \in Texts : memory[t] # Uncached =>
                  \/ cacheFile[t] # Uncached
                  \/ \E c \in EmbedCallers : call[c].at = "store" /\ call[c].prompt = t

CallsInv ==
  /\ CallsTypeOK /\ StoredParses /\ InFile
  /\ \A c \in Callers : CallSound(c)
  /\ \A c \in ChatCallers : AttemptSound(c)
  /\ \A c \in EmbedCallers : VectorSound(c)

LEMMA AttemptLimitType == AttemptLimit \in Nat /\ AttemptLimit >= 1
<1>1. AttemptLimit \in {1, MaxRetries} /\ \A y \in {1, MaxRetries} : AttemptLimit >= y
  <2>1. \E x \in {1, MaxRetries} : \A y \in {1, MaxRetries} : x >= y
    BY CallsAssumption
  <2> QED  BY <2>1 DEF AttemptLimit, Max
<1> QED  BY <1>1, CallsAssumption

LEMMA SmallerOf ==
    ASSUME NEW a \in Int, NEW b \in Int
    PROVE  /\ Min({a, b}) \in {a, b} /\ Min({a, b}) <= a /\ Min({a, b}) <= b
<1>1. \E x \in {a, b} : \A y \in {a, b} : x =< y
    OBVIOUS
<1> QED  BY <1>1 DEF Min

LEMMA PowersOfTwo == \A k \in 0 .. 6 : 2 ^ k \in Nat
<1> SUFFICES ASSUME NEW k \in 0 .. 6 PROVE 2 ^ k \in Nat
    OBVIOUS
<1>1. 2 ^ 0 = 1 /\ 2 ^ 1 = 2 /\ 2 ^ 2 = 4 /\ 2 ^ 3 = 8 /\ 2 ^ 4 = 16 /\ 2 ^ 5 = 32 /\ 2 ^ 6 = 64
    BY SMT
<1>2. CASE k = 0  BY <1>1, <1>2
<1>3. CASE k = 1  BY <1>1, <1>3
<1>4. CASE k = 2  BY <1>1, <1>4
<1>5. CASE k = 3  BY <1>1, <1>5
<1>6. CASE k = 4  BY <1>1, <1>6
<1>7. CASE k = 5  BY <1>1, <1>7
<1>8. CASE k = 6  BY <1>1, <1>8
<1> QED  BY <1>2, <1>3, <1>4, <1>5, <1>6, <1>7, <1>8

\* No delay between two attempts is longer than 90 seconds.
LEMMA DelayIsBounded ==
    ASSUME NEW fault, NEW attempt \in Nat, attempt >= 1
    PROVE  RetryDelay(fault, attempt) \in 0 .. 90
<1> DEFINE base == IF fault = "throttled" THEN 8 ELSE 2
           power == 2 ^ Min({6, attempt - 1})
           asked == IF fault = "told" THEN RetryAfter ELSE base * power
<1>1. Min({6, attempt - 1}) \in 0 .. 6
  <2>1. PICK k \in Nat : k = attempt - 1
    OBVIOUS
  <2>2. Min({6, k}) \in 0 .. 6
    BY SmallerOf
  <2> QED  BY <2>1, <2>2
<1>2. power \in Nat
    BY <1>1, PowersOfTwo
<1>3. base \in Nat
    OBVIOUS
<1> HIDE DEF base, power
<1>4. base * power \in Nat
    BY <1>2, <1>3
<1>5. asked \in Nat
    BY <1>4, CallsAssumption
<1>6. RetryDelay(fault, attempt) = Min({90, asked})
    BY DEF RetryDelay, base, power
<1> HIDE DEF asked
<1> QED  BY <1>5, <1>6, SmallerOf

LEMMA UncachedType == Uncached \in Answers /\ Uncached.parses = TRUE /\ Uncached.posts = 0
BY DEF Uncached, Answers

LEMMA AsksType == \A c \in Callers : Asks(c) # {} /\ Asks(c) \subseteq Prompts \cup Texts
BY CallsAssumption DEF Asks

LEMMA CallsInitially == CallsInit => CallsInv
<1> SUFFICES ASSUME CallsInit PROVE CallsInv
    OBVIOUS
<1>1. Uncached \in Answers /\ Uncached.parses = TRUE
    BY UncachedType
<1>2. \A c \in Callers : Asks(c) # {} /\ Asks(c) \subseteq Prompts \cup Texts
    BY AsksType
<1>3. \A c \in Callers : \E p \in Asks(c) :
        call[c] = [at |-> "idle", prompt |-> p, attempt |-> 1, posts |-> 0, waited |-> 0,
                   calls |-> 0, answer |-> Uncached]
  <2>1. \A c \in Callers : (CHOOSE p \in Asks(c) : TRUE) \in Asks(c)
    BY <1>2
  <2> QED  BY <2>1 DEF CallsInit
<1>5. ASSUME NEW c \in Callers PROVE call[c] \in CallRows
  <2>1. PICK p \in Asks(c) :
            call[c] = [at |-> "idle", prompt |-> p, attempt |-> 1, posts |-> 0, waited |-> 0,
                       calls |-> 0, answer |-> Uncached]
    BY <1>3
  <2>2. p \in Prompts \cup Texts
    BY <1>2
  <2> QED  BY <1>1, <2>1, <2>2 DEF CallRows, CallPlaces
<1>6. call \in [Callers -> CallRows]
    BY <1>5 DEF CallsInit
<1>7. CallsTypeOK /\ StoredParses
    BY <1>1, <1>6 DEF CallsInit, CallsTypeOK, StoredParses
<1>8. InFile
    BY <1>3 DEF InFile, CallsInit, Callers
<1>9. ASSUME NEW c \in Callers PROVE CallSound(c) /\ AttemptSound(c) /\ VectorSound(c)
  <2>1. /\ call[c].at = "idle" /\ call[c].prompt \in Asks(c)
        /\ call[c].attempt = 1 /\ call[c].posts = 0 /\ call[c].waited = 0
    <3>1. PICK p \in Asks(c) :
            call[c] = [at |-> "idle", prompt |-> p, attempt |-> 1, posts |-> 0, waited |-> 0,
                       calls |-> 0, answer |-> Uncached]
        BY <1>3
    <3> QED  BY <3>1
  <2> QED  BY <2>1, AttemptLimitType DEF CallSound, AttemptSound, VectorSound
<1> QED  BY <1>7, <1>8, <1>9 DEF CallsInv, Callers

\* The call of c goes on, and no other does.
OneGoesOn(c) ==
  /\ call' \in [Callers -> CallRows]
  /\ \A q \in Callers \ {c} : call'[q] = call[q]
  /\ CallSound(c)'
  /\ c \in ChatCallers => AttemptSound(c)'
  /\ c \in EmbedCallers => VectorSound(c)'

LEMMA CallGoesOn ==
    ASSUME CallsInv, NEW c \in Callers, OneGoesOn(c),
           cacheFile' \in [Prompts \cup Texts -> Answers], memory' \in [Texts -> Answers],
           StoredParses', InFile'
    PROVE  CallsInv'
<1>1. CallsTypeOK'
    BY DEF CallsTypeOK, OneGoesOn
<1>2. \A q \in Callers \ {c} : CallSound(q)' /\ (q \in ChatCallers => AttemptSound(q)')
                              /\ (q \in EmbedCallers => VectorSound(q)')
    BY DEF OneGoesOn, CallsInv, CallSound, AttemptSound, VectorSound
<1> QED  BY <1>1, <1>2 DEF CallsInv, OneGoesOn, Callers

\* One that stores nothing, and is no chat call that ends with an answer.
LEMMA CallStaysInFile ==
    ASSUME CallsInv, NEW c \in Callers, OneGoesOn(c), UNCHANGED <<cacheFile, memory>>,
           call[c].at # "store",
           c \in ChatCallers /\ call'[c].at = "done" => cacheFile[call'[c].prompt] # Uncached
    PROVE  CallsInv'
<1>1. InFile'
  <2> SUFFICES ASSUME CacheOn
               PROVE  /\ \A q \in ChatCallers : call'[q].at = "done" =>
                            cacheFile[call'[q].prompt] # Uncached
                      /\ \A t \in Texts : memory[t] # Uncached =>
                            \/ cacheFile[t] # Uncached
                            \/ \E q \in EmbedCallers : call'[q].at = "store" /\ call'[q].prompt = t
    BY DEF InFile, Uncached
  <2>1. ASSUME NEW q \in ChatCallers, call'[q].at = "done" PROVE cacheFile[call'[q].prompt] # Uncached
    <3>1. CASE q = c  BY <2>1, <3>1
    <3>2. CASE q # c  BY <2>1, <3>2 DEF CallsInv, InFile, OneGoesOn, Callers
    <3> QED  BY <3>1, <3>2
  <2>2. ASSUME NEW t \in Texts, memory[t] # Uncached, cacheFile[t] = Uncached
        PROVE  \E q \in EmbedCallers : call'[q].at = "store" /\ call'[q].prompt = t
    <3>1. PICK q \in EmbedCallers : call[q].at = "store" /\ call[q].prompt = t
        BY <2>2 DEF CallsInv, InFile
    <3> QED  BY <3>1 DEF OneGoesOn, Callers
  <2> QED  BY <2>1, <2>2
<1>2. StoredParses'
    BY DEF CallsInv, StoredParses
<1> QED  BY <1>1, <1>2, CallGoesOn DEF CallsInv, CallsTypeOK

\* Another place, and nothing else.
LEMMA MoveGoesOn ==
    ASSUME CallsInv, NEW c \in Callers, NEW where \in CallPlaces, Move(c, where),
           c \in ChatCallers => where \notin {"look_memory", "store_memory", "look_file", "ask", "ask_plain"},
           c \in EmbedCallers => where \notin {"ask_plain", "parse"},
           where \in {"parse", "store", "store_memory"} => call[c].answer.posts > 0,
           where \in {"store", "store_memory"} => call[c].answer.parses,
           c \in ChatCallers /\ where = "failed" =>
                call[c].attempt = AttemptLimit \/ ~call[c].answer.parses
    PROVE  /\ OneGoesOn(c)
           /\ call'[c].at = where /\ call'[c].prompt = call[c].prompt
           /\ call'[c].answer = call[c].answer
<1>1. call \in [Callers -> CallRows] /\ call[c] \in CallRows
    BY DEF CallsInv, CallsTypeOK
<1>2. call'[c] = [call[c] EXCEPT !.at = where] /\ DOMAIN call' = Callers
      /\ \A q \in Callers \ {c} : call'[q] = call[q]
    BY <1>1 DEF Move
<1>3. /\ call'[c] \in CallRows /\ call'[c].at = where /\ call'[c].prompt = call[c].prompt
      /\ call'[c].answer = call[c].answer /\ call'[c].attempt = call[c].attempt
      /\ call'[c].posts = call[c].posts /\ call'[c].waited = call[c].waited
    BY <1>1, <1>2 DEF CallRows
<1>4. call' \in [Callers -> CallRows]
    BY <1>1, <1>2, <1>3 DEF Move
<1>5. CallSound(c)'
    BY <1>3 DEF CallsInv, CallSound, Asks
<1>6. c \in ChatCallers => AttemptSound(c)'
    BY <1>3 DEF CallsInv, AttemptSound
<1>7. c \in EmbedCallers => VectorSound(c)'
    BY <1>3 DEF CallsInv, VectorSound
<1> QED  BY <1>2, <1>3, <1>4, <1>5, <1>6, <1>7 DEF OneGoesOn

LEMMA StartCallStep ==
    ASSUME CallsInv, NEW c \in Callers, NEW p \in Asks(c), StartCall(c, p)
    PROVE  CallsInv'
<1> DEFINE first == IF c \in ChatCallers THEN "look_file" ELSE "look_memory"
<1>1. call \in [Callers -> CallRows] /\ call[c] \in CallRows
    BY DEF CallsInv, CallsTypeOK
<1>2. /\ call'[c] = [at |-> first, prompt |-> p, attempt |-> 1, posts |-> 0, waited |-> 0,
                     calls |-> call[c].calls + 1, answer |-> Uncached]
      /\ \A q \in Callers \ {c} : call'[q] = call[q]
      /\ DOMAIN call' = Callers
    BY <1>1 DEF StartCall
<1>3. Uncached \in Answers /\ p \in Prompts \cup Texts /\ call[c].calls + 1 \in Nat
  <2>1. call[c].calls \in Nat
    BY <1>1 DEF CallRows
  <2> QED  BY <2>1, UncachedType, AsksType
<1>4. first \in CallPlaces
    BY DEF CallPlaces
<1> HIDE DEF first
<1>5. call'[c] \in CallRows
    BY <1>2, <1>3, <1>4 DEF CallRows
<1>6. call' \in [Callers -> CallRows]
    BY <1>1, <1>2, <1>5 DEF StartCall
<1>7. /\ call'[c].at = first /\ call'[c].prompt = p /\ call'[c].attempt = 1
      /\ call'[c].posts = 0 /\ call'[c].waited = 0
    BY <1>2
<1>8. CallSound(c)'
    BY <1>7 DEF CallSound, Asks, first
<1>9. c \in ChatCallers => AttemptSound(c)'
    BY <1>7, AttemptLimitType DEF AttemptSound, first
<1>10. c \in EmbedCallers => VectorSound(c)'
    BY <1>7 DEF VectorSound, first
<1>11. OneGoesOn(c)
    BY <1>2, <1>6, <1>8, <1>9, <1>10 DEF OneGoesOn
<1>12. call'[c].at # "done" /\ call[c].at # "store"
    BY <1>7 DEF first, StartCall
<1> QED  BY <1>11, <1>12, CallStaysInFile DEF StartCall

LEMMA AnsweredRow ==
    ASSUME CallsInv, NEW c \in Callers, NEW reply, NEW next \in CallPlaces, Answered(c, reply, next)
    PROVE  /\ call' \in [Callers -> CallRows]
           /\ \A q \in Callers \ {c} : call'[q] = call[q]
           /\ call'[c].at = next /\ call'[c].prompt = call[c].prompt
           /\ call'[c].attempt = call[c].attempt /\ call'[c].posts = call[c].posts + 1
           /\ call'[c].waited = call[c].waited
           /\ call'[c].answer.posts > 0 /\ (reply = "answer" => call'[c].answer.parses)
<1> DEFINE good == reply = "answer"
           got == [by |-> c, posts |-> call[c].posts + 1, parses |-> good]
<1>1. call \in [Callers -> CallRows] /\ call[c] \in CallRows /\ call[c].posts \in Nat
    BY DEF CallsInv, CallsTypeOK, CallRows
<1>3. call' = [call EXCEPT ![c].at = next, ![c].posts = @ + 1, ![c].answer = got]
    BY DEF Answered
<1>2. got \in Answers /\ got.posts > 0 /\ (good => got.parses)
  <2>1. good \in BOOLEAN
    OBVIOUS
  <2>2. ASSUME good PROVE got.parses
    <3>1. got = [by |-> c, posts |-> call[c].posts + 1, parses |-> TRUE]
        BY <2>2, Zenon
    <3> HIDE DEF got
    <3> QED  BY <3>1
  <2> HIDE DEF good
  <2>3. got \in Answers
    <3>1. PICK n \in Nat : n = call[c].posts + 1
        BY <1>1
    <3>2. [by |-> c, posts |-> n, parses |-> good] \in Answers
        BY <2>1 DEF Answers
    <3> QED  BY <3>1, <3>2
  <2> QED  BY <1>1, <2>2, <2>3
<1> HIDE DEF got
<1>4. DOMAIN call' = Callers /\ \A q \in Callers \ {c} : call'[q] = call[q]
    BY <1>1, <1>3
<1>5. call'[c] = [call[c] EXCEPT !.at = next, !.posts = @ + 1, !.answer = got]
    BY <1>1, <1>3
<1>6. call'[c] = [at |-> next, prompt |-> call[c].prompt, attempt |-> call[c].attempt,
                  posts |-> call[c].posts + 1, waited |-> call[c].waited,
                  calls |-> call[c].calls, answer |-> got]
    BY <1>1, <1>5 DEF CallRows
<1>7. call'[c] \in CallRows
    BY <1>1, <1>2, <1>6 DEF CallRows
<1>8. call' \in [Callers -> CallRows]
  <2>1. \A q \in Callers : call'[q] \in CallRows
    BY <1>1, <1>4, <1>7
  <2>2. call' = [q \in Callers |-> call'[q]]
    BY <1>1, <1>3
  <2> QED  BY <2>1, <2>2
<1> QED  BY <1>2, <1>4, <1>6, <1>8

LEMMA FoundRow ==
    ASSUME CallsInv, NEW c \in Callers, NEW next \in CallPlaces, NEW found \in Answers,
           Found(c, found, next)
    PROVE  /\ call' \in [Callers -> CallRows]
           /\ \A q \in Callers \ {c} : call'[q] = call[q]
           /\ call'[c].at = (IF found = Uncached THEN next ELSE "done") /\ call'[c].prompt = call[c].prompt
           /\ call'[c].attempt = call[c].attempt /\ call'[c].posts = call[c].posts
           /\ call'[c].waited = call[c].waited /\ call'[c].answer = found
<1> DEFINE where == IF found = Uncached THEN next ELSE "done"
<1>00. where \in CallPlaces
    BY DEF CallPlaces
<1>0. call' = [call EXCEPT ![c].at = where, ![c].answer = found]
    BY DEF Found
<1> HIDE DEF where
<1>1. call \in [Callers -> CallRows] /\ call[c] \in CallRows
    BY DEF CallsInv, CallsTypeOK
<1>2. DOMAIN call' = Callers /\ \A q \in Callers \ {c} : call'[q] = call[q]
    BY <1>0, <1>1
<1>3. call'[c] = [call[c] EXCEPT !.at = where, !.answer = found]
    BY <1>0, <1>1
<1>4. call'[c] = [at |-> where, prompt |-> call[c].prompt, attempt |-> call[c].attempt,
                           posts |-> call[c].posts, waited |-> call[c].waited,
                           calls |-> call[c].calls, answer |-> found]
    BY <1>1, <1>3 DEF CallRows
<1>5. call'[c] \in CallRows
    BY <1>1, <1>4, <1>00 DEF CallRows, CallPlaces
<1>6. \A q \in Callers : call'[q] \in CallRows
    BY <1>1, <1>2, <1>5
<1>7. call' = [q \in Callers |-> call'[q]]
    BY <1>0, <1>1
<1> QED  BY <1>2, <1>4, <1>6, <1>7 DEF where

LEMMA UnansweredRow ==
    ASSUME CallsInv, NEW c \in Callers, NEW next \in CallPlaces, Unanswered(c, next)
    PROVE  /\ call' \in [Callers -> CallRows]
           /\ \A q \in Callers \ {c} : call'[q] = call[q]
           /\ call'[c].at = next /\ call'[c].prompt = call[c].prompt
           /\ call'[c].attempt = call[c].attempt /\ call'[c].posts = call[c].posts + 1
           /\ call'[c].waited = call[c].waited /\ call'[c].answer = call[c].answer
<1>0. call' = [call EXCEPT ![c].at = next, ![c].posts = @ + 1]
    BY DEF Unanswered
<1>1. call \in [Callers -> CallRows] /\ call[c] \in CallRows
    BY DEF CallsInv, CallsTypeOK
<1>2. DOMAIN call' = Callers /\ \A q \in Callers \ {c} : call'[q] = call[q]
    BY <1>0, <1>1
<1>3. call'[c] = [call[c] EXCEPT !.at = next, !.posts = @ + 1]
    BY <1>0, <1>1
<1>4. call'[c] = [at |-> next, prompt |-> call[c].prompt, attempt |-> call[c].attempt,
                           posts |-> call[c].posts + 1, waited |-> call[c].waited,
                           calls |-> call[c].calls, answer |-> call[c].answer]
    BY <1>1, <1>3 DEF CallRows
<1>5. call'[c] \in CallRows
    BY <1>1, <1>4 DEF CallRows, CallPlaces
<1>6. \A q \in Callers : call'[q] \in CallRows
    BY <1>1, <1>2, <1>5
<1>7. call' = [q \in Callers |-> call'[q]]
    BY <1>0, <1>1
<1> QED  BY <1>2, <1>4, <1>6, <1>7

LEMMA AgainRow ==
    ASSUME CallsInv, NEW c \in Callers, NEW delay \in Nat, AskAgain(c, delay)
    PROVE  /\ call' \in [Callers -> CallRows]
           /\ \A q \in Callers \ {c} : call'[q] = call[q]
           /\ call'[c].at = "ask" /\ call'[c].prompt = call[c].prompt
           /\ call'[c].attempt = call[c].attempt + 1 /\ call'[c].posts = call[c].posts + 1
           /\ call'[c].waited = call[c].waited + delay /\ call'[c].answer = call[c].answer
<1>0. call' = [call EXCEPT ![c].at = "ask", ![c].posts = @ + 1, ![c].attempt = @ + 1,
                           ![c].waited = @ + delay]
    BY DEF AskAgain
<1>1. call \in [Callers -> CallRows] /\ call[c] \in CallRows
    BY DEF CallsInv, CallsTypeOK
<1>2. DOMAIN call' = Callers /\ \A q \in Callers \ {c} : call'[q] = call[q]
    BY <1>0, <1>1
<1>3. call'[c] = [call[c] EXCEPT !.at = "ask", !.posts = @ + 1, !.attempt = @ + 1, !.waited = @ + delay]
    BY <1>0, <1>1
<1>4. call'[c] = [at |-> "ask", prompt |-> call[c].prompt, attempt |-> call[c].attempt + 1,
                           posts |-> call[c].posts + 1, waited |-> call[c].waited + delay,
                           calls |-> call[c].calls, answer |-> call[c].answer]
    BY <1>1, <1>3 DEF CallRows
<1>5. call'[c] \in CallRows
    BY <1>1, <1>4 DEF CallRows, CallPlaces
<1>6. \A q \in Callers : call'[q] \in CallRows
    BY <1>1, <1>2, <1>5
<1>7. call' = [q \in Callers |-> call'[q]]
    BY <1>0, <1>1
<1> QED  BY <1>2, <1>4, <1>6, <1>7

\* A failed attempt of a chat call: the last one ends the call.
LEMMA AttemptFailsStep ==
    ASSUME CallsInv, NEW c \in ChatCallers, call[c].at \in {"ask", "ask_plain"}, NEW fault,
           AttemptFails(c, fault), UNCHANGED <<cacheFile, memory>>
    PROVE  CallsInv'
<1>1. /\ c \in Callers /\ c \notin EmbedCallers
      /\ call[c] \in CallRows /\ call[c].attempt \in Nat /\ call[c].posts \in Nat
      /\ call[c].waited \in Nat
    BY CallsAssumption DEF CallsInv, CallsTypeOK, CallRows, Callers
<1>2. CallSound(c) /\ AttemptSound(c)
    BY <1>1 DEF CallsInv
<1>3. PICK delay \in 0 .. 90 : delay = RetryDelay(fault, call[c].attempt)
  <2>1. call[c].attempt >= 1
    BY <1>1, <1>2 DEF AttemptSound
  <2> QED  BY <1>1, <2>1, DelayIsBounded
<1>4. CASE call[c].attempt >= AttemptLimit
  <2>1. Unanswered(c, "failed") /\ "failed" \in CallPlaces
    BY <1>4 DEF AttemptFails, CallPlaces
  <2>2. /\ call' \in [Callers -> CallRows]
        /\ \A q \in Callers \ {c} : call'[q] = call[q]
        /\ call'[c].at = "failed" /\ call'[c].prompt = call[c].prompt
        /\ call'[c].attempt = call[c].attempt /\ call'[c].posts = call[c].posts + 1
        /\ call'[c].waited = call[c].waited
    BY <1>1, <2>1, UnansweredRow
  <2>3. CallSound(c)' /\ AttemptSound(c)'
    BY <1>1, <1>2, <1>4, <2>2, AttemptLimitType DEF CallSound, AttemptSound, Asks
  <2> QED  BY <1>1, <2>2, <2>3, CallStaysInFile DEF OneGoesOn
<1>5. CASE ~(call[c].attempt >= AttemptLimit)
  <2>1. AskAgain(c, delay)
    BY <1>3, <1>5 DEF AttemptFails
  <2>2. /\ call' \in [Callers -> CallRows]
        /\ \A q \in Callers \ {c} : call'[q] = call[q]
        /\ call'[c].at = "ask" /\ call'[c].prompt = call[c].prompt
        /\ call'[c].attempt = call[c].attempt + 1 /\ call'[c].posts = call[c].posts + 1
        /\ call'[c].waited = call[c].waited + delay
    BY <1>1, <2>1, AgainRow
  <2>3. CallSound(c)' /\ AttemptSound(c)'
    BY <1>1, <1>2, <1>5, <2>2, AttemptLimitType DEF CallSound, AttemptSound, Asks
  <2> QED  BY <1>1, <2>2, <2>3, CallStaysInFile DEF OneGoesOn
<1> QED  BY <1>4, <1>5

\* An answer that comes to be parsed.
LEMMA AnsweredStep ==
    ASSUME CallsInv, NEW c \in ChatCallers, call[c].at \in {"ask", "ask_plain"}, NEW reply,
           Answered(c, reply, "parse"), UNCHANGED <<cacheFile, memory>>
    PROVE  CallsInv'
<1>1. /\ c \in Callers /\ c \notin EmbedCallers
      /\ call[c] \in CallRows /\ call[c].attempt \in Nat /\ call[c].posts \in Nat
    BY CallsAssumption DEF CallsInv, CallsTypeOK, CallRows, Callers
<1>2. CallSound(c) /\ AttemptSound(c)
    BY <1>1 DEF CallsInv
<1>3. /\ call' \in [Callers -> CallRows]
      /\ \A q \in Callers \ {c} : call'[q] = call[q]
      /\ call'[c].at = "parse" /\ call'[c].prompt = call[c].prompt
      /\ call'[c].attempt = call[c].attempt /\ call'[c].posts = call[c].posts + 1
      /\ call'[c].waited = call[c].waited /\ call'[c].answer.posts > 0
  <2>1. "parse" \in CallPlaces
    BY DEF CallPlaces
  <2> QED  BY <1>1, <2>1, AnsweredRow
<1>4. CallSound(c)' /\ AttemptSound(c)'
    BY <1>1, <1>2, <1>3 DEF CallSound, AttemptSound, Asks
<1> QED  BY <1>1, <1>3, <1>4, CallStaysInFile DEF OneGoesOn

LEMMA AskStep ==
    ASSUME CallsInv, NEW c \in Callers, NEW reply \in Replies, Ask(c, reply)
    PROVE  CallsInv'
<1>1. /\ c \in ChatCallers /\ call[c].at = "ask" /\ UNCHANGED <<cacheFile, memory>>
    BY DEF Ask
<1>2. CASE Answered(c, reply, "parse")
    BY <1>1, <1>2, AnsweredStep
<1>3. CASE AttemptFails(c, reply)
    BY <1>1, <1>3, AttemptFailsStep
<1>4. CASE Unanswered(c, "ask_plain")
  <2>1. /\ call[c] \in CallRows /\ call[c].attempt \in Nat /\ call[c].posts \in Nat
        /\ c \notin EmbedCallers /\ CallSound(c) /\ AttemptSound(c)
    BY <1>1, CallsAssumption DEF CallsInv, CallsTypeOK, CallRows
  <2>2. /\ call' \in [Callers -> CallRows]
        /\ \A q \in Callers \ {c} : call'[q] = call[q]
        /\ call'[c].at = "ask_plain" /\ call'[c].prompt = call[c].prompt
        /\ call'[c].attempt = call[c].attempt /\ call'[c].posts = call[c].posts + 1
        /\ call'[c].waited = call[c].waited
    <3>1. "ask_plain" \in CallPlaces
        BY DEF CallPlaces
    <3> QED  BY <1>4, <3>1, UnansweredRow
  <2>3. CallSound(c)' /\ AttemptSound(c)'
    BY <1>1, <2>1, <2>2 DEF CallSound, AttemptSound, Asks
  <2> QED  BY <1>1, <2>1, <2>2, <2>3, CallStaysInFile DEF OneGoesOn
<1> QED  BY <1>2, <1>3, <1>4 DEF Ask

LEMMA AskPlainStep ==
    ASSUME CallsInv, NEW c \in Callers, NEW reply \in PlainReplies, AskPlain(c, reply)
    PROVE  CallsInv'
<1>1. /\ c \in ChatCallers /\ call[c].at = "ask_plain" /\ UNCHANGED <<cacheFile, memory>>
    BY DEF AskPlain, CallsInv, VectorSound, Callers
<1> QED  BY <1>1, AnsweredStep, AttemptFailsStep DEF AskPlain

LEMMA ParseStep ==
    ASSUME CallsInv, NEW c \in Callers, Parse(c)
    PROVE  CallsInv'
<1>1. c \in ChatCallers /\ call[c].at = "parse" /\ CallSound(c)
    BY DEF Parse, CallsInv, VectorSound, Callers
<1>2. PICK where \in {"store", "failed"} :
        Move(c, where) /\ (where = "store" <=> call[c].answer.parses)
    BY DEF Parse
<1>3. OneGoesOn(c) /\ call'[c].at = where
    BY <1>1, <1>2, MoveGoesOn, CallsAssumption DEF CallSound, CallPlaces
<1> QED  BY <1>1, <1>3, CallStaysInFile DEF Parse

LEMMA AskVectorStep ==
    ASSUME CallsInv, NEW c \in Callers, NEW reply \in {"answer", "lost"}, AskVector(c, reply)
    PROVE  CallsInv'
<1>1. /\ c \in EmbedCallers /\ c \notin ChatCallers /\ call[c].at = "ask"
      /\ UNCHANGED <<cacheFile, memory>> /\ CallSound(c)
    BY CallsAssumption DEF AskVector, CallsInv
<1>2. CASE reply = "answer"
  <2>1. "store_memory" \in CallPlaces /\ Answered(c, reply, "store_memory")
    BY <1>2 DEF CallPlaces, AskVector
  <2>2. /\ call' \in [Callers -> CallRows]
        /\ \A q \in Callers \ {c} : call'[q] = call[q]
        /\ call'[c].at = "store_memory" /\ call'[c].prompt = call[c].prompt
        /\ call'[c].answer.posts > 0 /\ call'[c].answer.parses
    BY <1>2, <2>1, AnsweredRow
  <2>3. CallSound(c)' /\ VectorSound(c)'
    BY <1>1, <2>2 DEF CallSound, VectorSound, Asks
  <2> QED  BY <1>1, <2>2, <2>3, CallStaysInFile DEF OneGoesOn
<1>3. CASE reply # "answer"
  <2>1. Unanswered(c, "failed") /\ "failed" \in CallPlaces
    BY <1>3 DEF AskVector, CallPlaces
  <2>2. /\ call' \in [Callers -> CallRows]
        /\ \A q \in Callers \ {c} : call'[q] = call[q]
        /\ call'[c].at = "failed" /\ call'[c].prompt = call[c].prompt
    BY <2>1, UnansweredRow
  <2>3. CallSound(c)' /\ VectorSound(c)'
    BY <1>1, <2>2 DEF CallSound, VectorSound, Asks
  <2> QED  BY <1>1, <2>2, <2>3, CallStaysInFile DEF OneGoesOn
<1> QED  BY <1>2, <1>3

LEMMA LookInMemoryStep ==
    ASSUME CallsInv, NEW c \in Callers, LookInMemory(c)
    PROVE  CallsInv'
<1>1. /\ c \in EmbedCallers /\ c \notin ChatCallers /\ call[c].at = "look_memory"
      /\ UNCHANGED <<cacheFile, memory>> /\ CallSound(c)
    BY CallsAssumption DEF LookInMemory, CallsInv, AttemptSound, Callers
<1> DEFINE found == memory[call[c].prompt]
<1>2. found \in Answers /\ "look_file" \in CallPlaces
    BY <1>1 DEF CallSound, Asks, CallsInv, CallsTypeOK, CallPlaces
<1>3. Found(c, found, "look_file")
    BY DEF LookInMemory
<1> HIDE DEF found
<1>4. /\ call' \in [Callers -> CallRows]
      /\ \A q \in Callers \ {c} : call'[q] = call[q]
      /\ call'[c].at \in {"look_file", "done"} /\ call'[c].prompt = call[c].prompt
    BY <1>2, <1>3, FoundRow
<1>5. CallSound(c)' /\ VectorSound(c)'
    BY <1>1, <1>4 DEF CallSound, VectorSound, Asks
<1> QED  BY <1>1, <1>4, <1>5, CallStaysInFile DEF OneGoesOn

LEMMA LookInFileStep ==
    ASSUME CallsInv, NEW c \in Callers, LookInFile(c)
    PROVE  CallsInv'
<1> DEFINE p == call[c].prompt
           found == cacheFile[p]
<1>1. /\ call[c].at = "look_file" /\ cacheFile' = cacheFile /\ CallSound(c)
      /\ p \in Asks(c) /\ p \in Prompts \cup Texts /\ (c \in EmbedCallers => p \in Texts)
    BY CallsAssumption DEF LookInFile, CallsInv, CallSound, Asks
<1>2. found \in Answers /\ {"ask", "failed"} \subseteq CallPlaces /\ found.parses
    BY <1>1 DEF CallsInv, CallsTypeOK, CallPlaces, StoredParses
<1>3. PICK next \in {"ask", "failed"} : Found(c, found, next)
    BY DEF LookInFile
<1>4. memory' = IF c \in EmbedCallers /\ found # Uncached THEN [memory EXCEPT ![p] = found] ELSE memory
    BY DEF LookInFile
<1>5. found = cacheFile[p] /\ p = call[c].prompt
    OBVIOUS
<1> HIDE DEF p, found
<1>6. /\ call' \in [Callers -> CallRows]
      /\ \A q \in Callers \ {c} : call'[q] = call[q]
      /\ call'[c].at \in {"ask", "failed", "done"} /\ call'[c].prompt = p
      /\ call'[c].attempt = call[c].attempt /\ call'[c].posts = call[c].posts
      /\ call'[c].waited = call[c].waited
      /\ call'[c].at = "done" => found # Uncached
    BY <1>2, <1>3, <1>5, FoundRow
<1>7. CallSound(c)' /\ (c \in EmbedCallers => VectorSound(c)')
    BY <1>1, <1>6 DEF CallSound, VectorSound, Asks
<1>8. c \in ChatCallers => AttemptSound(c)'
    BY <1>1, <1>6 DEF CallsInv, AttemptSound
<1>9. OneGoesOn(c)
    BY <1>6, <1>7, <1>8 DEF OneGoesOn
<1>10. /\ memory' \in [Texts -> Answers]
       /\ \A t \in Texts : memory'[t] = memory[t] \/ (t = p /\ memory'[t] = found)
    BY <1>1, <1>2, <1>4 DEF CallsInv, CallsTypeOK
<1>11. StoredParses'
    BY <1>1, <1>2, <1>10 DEF CallsInv, StoredParses
<1>12. InFile'
  <2> SUFFICES ASSUME CacheOn
               PROVE  /\ \A q \in ChatCallers : call'[q].at = "done" =>
                            cacheFile[call'[q].prompt] # Uncached
                      /\ \A t \in Texts : memory'[t] # Uncached =>
                            \/ cacheFile[t] # Uncached
                            \/ \E q \in EmbedCallers : call'[q].at = "store" /\ call'[q].prompt = t
    BY <1>1 DEF InFile, Uncached
  <2>1. ASSUME NEW q \in ChatCallers, call'[q].at = "done" PROVE cacheFile[call'[q].prompt] # Uncached
    <3>1. CASE q = c  BY <1>5, <1>6, <2>1, <3>1
    <3>2. CASE q # c  BY <1>6, <2>1, <3>2 DEF CallsInv, InFile, Callers
    <3> QED  BY <3>1, <3>2
  <2>2. ASSUME NEW t \in Texts, memory'[t] # Uncached, cacheFile[t] = Uncached
        PROVE  \E q \in EmbedCallers : call'[q].at = "store" /\ call'[q].prompt = t
    <3>1. memory[t] # Uncached
        BY <1>5, <1>10, <2>2
    <3>2. PICK q \in EmbedCallers : call[q].at = "store" /\ call[q].prompt = t
        BY <2>2, <3>1 DEF CallsInv, InFile
    <3> QED  BY <1>1, <1>6, <3>2 DEF Callers
  <2> QED  BY <2>1, <2>2
<1> QED  BY <1>1, <1>9, <1>10, <1>11, <1>12, CallGoesOn DEF CallsInv, CallsTypeOK

LEMMA StoreInMemoryStep ==
    ASSUME CallsInv, NEW c \in Callers, StoreInMemory(c)
    PROVE  CallsInv'
<1>1. /\ c \in EmbedCallers /\ c \notin ChatCallers /\ call[c].at = "store_memory"
      /\ cacheFile' = cacheFile /\ CallSound(c) /\ call[c].prompt \in Texts
    BY CallsAssumption DEF StoreInMemory, CallsInv, AttemptSound, CallSound, Callers, Asks
<1>2. OneGoesOn(c) /\ call'[c].at = "store" /\ call'[c].prompt = call[c].prompt
    BY <1>1, MoveGoesOn DEF StoreInMemory, CallSound, CallPlaces
<1>3. call[c].answer \in Answers /\ call[c].answer.parses
    BY <1>1 DEF CallsInv, CallsTypeOK, CallRows, CallSound
<1>4. /\ memory' \in [Texts -> Answers]
      /\ \A t \in Texts : memory'[t] = memory[t] \/ (t = call[c].prompt /\ memory'[t] = call[c].answer)
    BY <1>1, <1>3 DEF StoreInMemory, CallsInv, CallsTypeOK
<1>5. StoredParses'
    BY <1>1, <1>3, <1>4 DEF CallsInv, StoredParses
<1>6. InFile'
  <2> SUFFICES ASSUME CacheOn
               PROVE  /\ \A q \in ChatCallers : call'[q].at = "done" =>
                            cacheFile[call'[q].prompt] # Uncached
                      /\ \A t \in Texts : memory'[t] # Uncached =>
                            \/ cacheFile[t] # Uncached
                            \/ \E q \in EmbedCallers : call'[q].at = "store" /\ call'[q].prompt = t
    BY <1>1 DEF InFile, Uncached
  <2>1. ASSUME NEW q \in ChatCallers, call'[q].at = "done" PROVE cacheFile[call'[q].prompt] # Uncached
    BY <1>1, <1>2, <2>1 DEF CallsInv, InFile, OneGoesOn, Callers
  <2>2. ASSUME NEW t \in Texts, memory'[t] # Uncached, cacheFile[t] = Uncached
        PROVE  \E q \in EmbedCallers : call'[q].at = "store" /\ call'[q].prompt = t
    <3>1. CASE t = call[c].prompt
        BY <1>1, <1>2, <3>1
    <3>2. CASE t # call[c].prompt
      <4>1. PICK q \in EmbedCallers : call[q].at = "store" /\ call[q].prompt = t
        BY <1>4, <2>2, <3>2 DEF CallsInv, InFile
      <4> QED  BY <1>1, <1>2, <4>1 DEF OneGoesOn, Callers
    <3> QED  BY <3>1, <3>2
  <2> QED  BY <2>1, <2>2
<1> QED  BY <1>1, <1>2, <1>4, <1>5, <1>6, CallGoesOn DEF CallsInv, CallsTypeOK

LEMMA StoreInFileStep ==
    ASSUME CallsInv, NEW c \in Callers, StoreInFile(c)
    PROVE  CallsInv'
<1>1. /\ call[c].at = "store" /\ memory' = memory /\ CallSound(c)
      /\ call[c].prompt \in Prompts \cup Texts
    BY AsksType DEF StoreInFile, CallsInv, CallSound
<1>2. OneGoesOn(c) /\ call'[c].at = "done" /\ call'[c].prompt = call[c].prompt
    BY <1>1, MoveGoesOn DEF StoreInFile, CallSound, CallPlaces
<1>3. call[c].answer \in Answers /\ call[c].answer.parses /\ call[c].answer # Uncached
    BY <1>1, UncachedType DEF CallsInv, CallsTypeOK, CallRows, CallSound
<1>4. /\ cacheFile' \in [Prompts \cup Texts -> Answers]
      /\ CacheOn => cacheFile'[call[c].prompt] # Uncached
      /\ \A p \in Prompts \cup Texts : cacheFile'[p] = cacheFile[p] \/ cacheFile'[p] = call[c].answer
    BY <1>1, <1>3 DEF StoreInFile, CallsInv, CallsTypeOK
<1>5. StoredParses'
    BY <1>1, <1>3, <1>4 DEF CallsInv, StoredParses
<1>6. InFile'
  <2> SUFFICES ASSUME CacheOn
               PROVE  /\ \A q \in ChatCallers : call'[q].at = "done" =>
                            cacheFile'[call'[q].prompt] # Uncached
                      /\ \A t \in Texts : memory[t] # Uncached =>
                            \/ cacheFile'[t] # Uncached
                            \/ \E q \in EmbedCallers : call'[q].at = "store" /\ call'[q].prompt = t
    BY <1>1 DEF InFile, Uncached
  <2>1. ASSUME NEW q \in ChatCallers, call'[q].at = "done" PROVE cacheFile'[call'[q].prompt] # Uncached
    <3>1. CASE q = c  BY <1>2, <1>4, <3>1
    <3>2. CASE q # c
      <4>1. call'[q] = call[q] /\ call[q].prompt \in Prompts \cup Texts
        BY <1>2, <3>2, AsksType DEF OneGoesOn, Callers, CallsInv, CallSound
      <4>2. cacheFile[call[q].prompt] # Uncached
        BY <2>1, <4>1 DEF CallsInv, InFile
      <4> QED  BY <1>3, <1>4, <4>1, <4>2
    <3> QED  BY <3>1, <3>2
  <2>2. ASSUME NEW t \in Texts, memory[t] # Uncached, cacheFile'[t] = Uncached
        PROVE  \E q \in EmbedCallers : call'[q].at = "store" /\ call'[q].prompt = t
    <3>1. cacheFile[t] = Uncached /\ t # call[c].prompt
        BY <1>3, <1>4, <2>2
    <3>2. PICK q \in EmbedCallers : call[q].at = "store" /\ call[q].prompt = t
        BY <2>2, <3>1 DEF CallsInv, InFile
    <3> QED  BY <1>2, <3>1, <3>2 DEF OneGoesOn, Callers
  <2> QED  BY <2>1, <2>2
<1> QED  BY <1>1, <1>2, <1>4, <1>5, <1>6, CallGoesOn DEF CallsInv, CallsTypeOK

LEMMA CallsStep == CallsInv /\ [CallsNext]_callVars => CallsInv'
<1> SUFFICES ASSUME CallsInv, [CallsNext]_callVars PROVE CallsInv'
    OBVIOUS
<1>1. CASE UNCHANGED callVars
    BY <1>1 DEF callVars, CallsInv, CallsTypeOK, StoredParses, InFile, CallSound, AttemptSound,
        VectorSound
<1>2. CASE CallsNext
    BY <1>2, StartCallStep, LookInMemoryStep, LookInFileStep, AskStep, AskPlainStep, ParseStep,
       AskVectorStep, StoreInMemoryStep, StoreInFileStep DEF CallsNext
<1> QED  BY <1>1, <1>2

\* Whoever asks the same at the same time, and however often the service fails,
\* what is stored has parsed and is stored in the file, a failed call had used
\* up its attempts or was given an answer that does not parse, and no attempt
\* asks more than twice or waits for longer than 90 seconds (llm_client.py
\* complete_json, llm_transport.py request_json_content, retriever.py).
THEOREM CallsStayAccounted == CallsSpec => []CallsAreAccounted
<1>1. CallsInv => CallsAreAccounted
  <2> SUFFICES ASSUME CallsInv PROVE CallsAreAccounted
    OBVIOUS
  <2>1. \A c \in ChatCallers : AttemptSound(c)
    BY DEF CallsInv
  <2> QED  BY <2>1 DEF CallsInv, CallsAreAccounted, StoredParses, InFile, AttemptSound
<1> QED  BY <1>1, CallsInitially, CallsStep, PTL DEF CallsSpec

-----------------------------------------------------------------------------
(* The progress bus                                                         *)

Events == [id : Nat, type : EventTypes, ts : Nat]
StreamRows == [at : {"off", "listening", "live", "closed"}, shown : SUBSET Events,
               inbox : Seq(Events), dropped : SUBSET Events]

Handouts == [event : Events \cup {<<>>}, to : SUBSET Streams]

BusTypeOK ==
  /\ log \in Seq(Events)
  /\ nextId \in Nat /\ clears \in Nat
  /\ listeners \subseteq Streams
  /\ sending \in [Emitters -> Handouts]
  /\ \A e \in Emitters : sending[e] = Idle \/ sending[e].event \in Events
  /\ stream \in [Streams -> StreamRows]
  /\ taskLog \in [Emitters -> Seq(Events)]

\* A stream that was given the replay is still listening, and has no gap.
NoGap(s) ==
  /\ stream[s].at \in {"listening", "live"} => s \in listeners
  /\ stream[s].at = "live" =>
       \A event \in ToSet(log) \ (stream[s].shown \cup stream[s].dropped) : OnItsWay(event, s)

Earlier(event, ts, id) == event.ts < ts \/ (event.ts = ts /\ event.id < id)

\* A log in order, older than what is handed out, and all of that in the past.
InOrder(q, handout, ts, id) ==
  /\ \A i, j \in 1 .. Len(q) : i < j => Earlier(q[i], q[j].ts, q[j].id)
  /\ \A i \in 1 .. Len(q) : Earlier(q[i], ts, id)
  /\ handout # Idle =>
       /\ Earlier(handout.event, ts, id)
       /\ \A i \in 1 .. Len(q) : Earlier(q[i], handout.event.ts, handout.event.id)

LogInOrder(e) == InOrder(taskLog[e], sending[e], clears, nextId)

BusInv ==
  /\ BusTypeOK
  /\ \A s \in Streams : NoGap(s)
  /\ \A e \in Emitters : LogInOrder(e)

LEMMA AppendedSet ==
    ASSUME NEW S, NEW q \in Seq(S), NEW x \in S
    PROVE  ToSet(Append(q, x)) = ToSet(q) \cup {x}
<1> DEFINE grown == Append(q, x)
<1>1. DOMAIN q = 1 .. Len(q) /\ Len(q) \in Nat
    OBVIOUS
<1>2. /\ DOMAIN grown = 1 .. Len(q) + 1 /\ grown[Len(q) + 1] = x
      /\ \A i \in 1 .. Len(q) : grown[i] = q[i]
    OBVIOUS
<1> HIDE DEF grown
<1>3. \A i \in DOMAIN grown : grown[i] = x \/ (i \in DOMAIN q /\ grown[i] = q[i])
    BY <1>1, <1>2
<1>4. \A i \in DOMAIN q : i \in DOMAIN grown /\ grown[i] = q[i]
    BY <1>1, <1>2
<1>5. Len(q) + 1 \in DOMAIN grown
    BY <1>1, <1>2
<1>6. ToSet(grown) \subseteq ToSet(q) \cup {x}
    BY <1>3 DEF ToSet
<1>7. ToSet(q) \cup {x} \subseteq ToSet(grown)
    BY <1>2, <1>4, <1>5 DEF ToSet
<1> QED  BY <1>6, <1>7 DEF grown

LEMMA TailSet ==
    ASSUME NEW S, NEW q \in Seq(S), q # <<>>
    PROVE  /\ ToSet(q) = {Head(q)} \cup ToSet(Tail(q))
           /\ Tail(q) \in Seq(S) /\ Head(q) \in S
<1>1. \A i \in DOMAIN q : i = 1 \/ (i - 1 \in DOMAIN Tail(q) /\ q[i] = Tail(q)[i - 1])
    OBVIOUS
<1>2. 1 \in DOMAIN q /\ q[1] = Head(q)
    OBVIOUS
<1>3. \A i \in DOMAIN Tail(q) : i + 1 \in DOMAIN q /\ q[i + 1] = Tail(q)[i]
    OBVIOUS
<1>4. Tail(q) \in Seq(S) /\ Head(q) \in S
    OBVIOUS
<1>5. ToSet(q) \subseteq {Head(q)} \cup ToSet(Tail(q))
  <2> SUFFICES ASSUME NEW y \in ToSet(q), y # Head(q) PROVE y \in ToSet(Tail(q))
    OBVIOUS
  <2>1. PICK i \in DOMAIN q : y = q[i]
    BY DEF ToSet
  <2>2. i - 1 \in DOMAIN Tail(q) /\ y = Tail(q)[i - 1]
    BY <1>1, <1>2, <2>1
  <2> QED  BY <2>2 DEF ToSet
<1>6. {Head(q)} \cup ToSet(Tail(q)) \subseteq ToSet(q)
  <2>1. \A y \in ToSet(Tail(q)) : \E i \in DOMAIN Tail(q) : y = Tail(q)[i]
    BY DEF ToSet
  <2>2. \A y \in ToSet(Tail(q)) : \E i \in DOMAIN q : y = q[i]
    BY <1>3, <2>1
  <2> QED  BY <1>2, <2>2 DEF ToSet
<1> QED  BY <1>4, <1>5, <1>6

LEMMA ShrunkSet ==
    ASSUME NEW S, NEW q \in Seq(S), NEW x \in S,
           NEW n, n = IF Len(Append(q, x)) > LogSize THEN Tail(Append(q, x)) ELSE Append(q, x)
    PROVE  n \in Seq(S) /\ ToSet(n) \subseteq ToSet(q) \cup {x}
<1> DEFINE grown == Append(q, x)
<1>1. grown \in Seq(S) /\ grown # <<>> /\ ToSet(grown) = ToSet(q) \cup {x}
    BY AppendedSet
<1>2. n = Tail(grown) \/ n = grown
    OBVIOUS
<1> HIDE DEF grown
<1>3. Tail(grown) \in Seq(S) /\ ToSet(Tail(grown)) \subseteq ToSet(grown)
    BY <1>1, TailSet
<1> QED  BY <1>1, <1>2, <1>3

LEMMA TimePasses ==
    ASSUME NEW q \in Seq(Events), NEW h, h = Idle \/ h.event \in Events,
           NEW ts \in Nat, NEW id \in Nat, NEW ts2 \in Nat, NEW id2 \in Nat,
           ts < ts2 \/ (ts = ts2 /\ id <= id2),
           InOrder(q, h, ts, id)
    PROVE  InOrder(q, h, ts2, id2)
<1>1. ASSUME NEW x \in Events, Earlier(x, ts, id) PROVE Earlier(x, ts2, id2)
    BY <1>1 DEF Earlier, Events
<1>2. \A i \in 1 .. Len(q) : q[i] \in Events
    OBVIOUS
<1> QED  BY <1>1, <1>2 DEF InOrder

LEMMA NextPasses ==
    ASSUME NEW q \in Seq(Events), NEW h, h = Idle \/ h.event \in Events,
           NEW ts \in Nat, NEW id \in Nat, InOrder(q, h, ts, id)
    PROVE  InOrder(q, h, ts, id + 1)
BY TimePasses

LEMMA ClearPasses ==
    ASSUME NEW q \in Seq(Events), NEW h, h = Idle \/ h.event \in Events,
           NEW ts \in Nat, NEW id \in Nat, InOrder(q, h, ts, id)
    PROVE  InOrder(q, h, ts + 1, 1)
BY TimePasses

LEMMA HandsOut ==
    ASSUME NEW q \in Seq(Events), NEW h, NEW ts \in Nat, NEW id \in Nat,
           InOrder(q, Idle, ts, id), h.event.ts = ts, h.event.id = id
    PROVE  InOrder(q, h, ts, id + 1)
<1>1. ASSUME NEW x \in Events, Earlier(x, ts, id) PROVE Earlier(x, ts, id + 1)
    BY <1>1 DEF Earlier, Events
<1>2. \A i \in 1 .. Len(q) : q[i] \in Events
    OBVIOUS
<1>3. Earlier(h.event, ts, id + 1)
    BY DEF Earlier
<1> QED  BY <1>1, <1>2, <1>3 DEF InOrder

LEMMA Logs ==
    ASSUME NEW q \in Seq(Events), NEW h, h # Idle, h.event \in Events,
           NEW ts, NEW id, InOrder(q, h, ts, id)
    PROVE  InOrder(Append(q, h.event), Idle, ts, id)
<1> DEFINE grown == Append(q, h.event)
<1>1. /\ Len(grown) = Len(q) + 1 /\ Len(q) \in Nat /\ grown[Len(q) + 1] = h.event
      /\ \A i \in 1 .. Len(q) : grown[i] = q[i]
    OBVIOUS
<1> HIDE DEF grown
<1>2. ASSUME NEW i \in 1 .. Len(grown), NEW j \in 1 .. Len(grown), i < j
      PROVE  Earlier(grown[i], grown[j].ts, grown[j].id)
  <2>1. i \in 1 .. Len(q) /\ grown[i] = q[i]
    BY <1>1, <1>2
  <2>2. CASE j \in 1 .. Len(q)
    BY <1>1, <1>2, <2>1, <2>2 DEF InOrder
  <2>3. CASE j = Len(q) + 1
    BY <1>1, <2>1, <2>3 DEF InOrder
  <2> QED  BY <1>1, <2>2, <2>3
<1>3. ASSUME NEW i \in 1 .. Len(grown) PROVE Earlier(grown[i], ts, id)
  <2>1. CASE i \in 1 .. Len(q)
    BY <1>1, <2>1 DEF InOrder
  <2>2. CASE i = Len(q) + 1
    BY <1>1, <2>2 DEF InOrder
  <2> QED  BY <1>1, <2>1, <2>2
<1>4. InOrder(grown, Idle, ts, id)
    BY <1>2, <1>3 DEF InOrder
<1> QED  BY <1>4 DEF grown

LEMMA BusInitially == BusInit => BusInv
<1> SUFFICES ASSUME BusInit PROVE BusInv
    OBVIOUS
<1>1. BusTypeOK
    BY DEF BusInit, BusTypeOK, StreamRows, Handouts, Idle
<1>2. ASSUME NEW s \in Streams PROVE NoGap(s)
    BY DEF BusInit, NoGap
<1>3. ASSUME NEW e \in Emitters PROVE LogInOrder(e)
    BY DEF BusInit, LogInOrder, InOrder
<1> QED  BY <1>1, <1>2, <1>3 DEF BusInv

LEMMA EmitStep ==
    ASSUME BusInv, NEW e \in Emitters, NEW type \in EventTypes, Emit(e, type)
    PROVE  BusInv'
<1> DEFINE event == [id |-> nextId, type |-> type, ts |-> clears]
<1>1. /\ log \in Seq(Events) /\ nextId \in Nat /\ clears \in Nat /\ listeners \subseteq Streams
      /\ sending \in [Emitters -> Handouts]
    BY DEF BusInv, BusTypeOK
<1>2. event \in Events /\ event.id = nextId /\ event.ts = clears
    BY <1>1 DEF Events
<1>3. /\ log' = IF Len(Append(log, event)) > LogSize THEN Tail(Append(log, event)) ELSE Append(log, event)
      /\ sending' = [sending EXCEPT ![e] = [event |-> event, to |-> listeners]]
      /\ sending[e] = Idle
      /\ nextId' = nextId + 1
      /\ UNCHANGED <<clears, listeners, stream, taskLog>>
    BY DEF Emit
<1> HIDE DEF event
<1>4. log' \in Seq(Events) /\ ToSet(log') \subseteq ToSet(log) \cup {event}
    BY <1>1, <1>2, <1>3, ShrunkSet
<1>5. /\ sending'[e].event = event /\ sending'[e].to = listeners
      /\ \A f \in Emitters \ {e} : sending'[f] = sending[f]
      /\ sending' \in [Emitters -> Handouts]
    BY <1>1, <1>2, <1>3 DEF Handouts
<1>6. BusTypeOK'
    BY <1>1, <1>2, <1>3, <1>4, <1>5 DEF BusInv, BusTypeOK
<1>7. ASSUME NEW s \in Streams PROVE NoGap(s)'
  <2>1. NoGap(s)
    BY DEF BusInv
  <2> SUFFICES ASSUME stream[s].at = "live", NEW old \in ToSet(log'),
                      old \notin stream[s].shown \cup stream[s].dropped
               PROVE  \/ old \in ToSet(stream[s].inbox)
                      \/ \E f \in Emitters : sending'[f].event = old /\ s \in sending'[f].to
    BY <1>3, <2>1 DEF NoGap, OnItsWay
  <2>2. CASE old = event
    BY <1>5, <2>1, <2>2 DEF NoGap
  <2>3. CASE old # event
    <3>1. OnItsWay(old, s)
        BY <1>4, <2>1, <2>3 DEF NoGap
    <3>2. ASSUME NEW f \in Emitters, s \in sending[f].to PROVE f # e
        BY <1>3, <3>2 DEF Idle
    <3> QED  BY <1>5, <3>1, <3>2 DEF OnItsWay
  <2> QED  BY <2>2, <2>3
<1>8. ASSUME NEW f \in Emitters PROVE LogInOrder(f)'
  <2>1. InOrder(taskLog[f], sending[f], clears, nextId) /\ taskLog[f] \in Seq(Events)
        /\ (sending[f] = Idle \/ sending[f].event \in Events)
    BY DEF BusInv, LogInOrder, BusTypeOK
  <2>2. InOrder(taskLog[f], sending'[f], clears, nextId + 1)
    <3>1. CASE f = e
        BY <1>1, <1>2, <1>3, <1>5, <2>1, <3>1, HandsOut
    <3>2. CASE f # e
      <4>1. InOrder(taskLog[f], sending[f], clears, nextId + 1)
        BY <1>1, <2>1, NextPasses
      <4> QED  BY <1>5, <3>2, <4>1
    <3> QED  BY <3>1, <3>2
  <2> QED  BY <1>3, <2>2 DEF LogInOrder
<1> QED  BY <1>6, <1>7, <1>8 DEF BusInv

LEMMA DeliverStep ==
    ASSUME BusInv, NEW e \in Emitters, NEW s \in Streams, Deliver(e, s)
    PROVE  BusInv'
<1> DEFINE event == sending[e].event
<1>1. /\ sending \in [Emitters -> Handouts] /\ stream \in [Streams -> StreamRows]
      /\ sending[e] # Idle /\ event \in Events
    BY DEF BusInv, BusTypeOK, Deliver, Idle
<1>2. /\ sending' = [sending EXCEPT ![e].to = @ \ {s}]
      /\ UNCHANGED <<log, nextId, clears, stats, listeners, taskLog, emitted>>
    BY DEF Deliver
<1>3. /\ sending'[e].event = event /\ sending'[e].to = sending[e].to \ {s}
      /\ \A f \in Emitters \ {e} : sending'[f] = sending[f]
      /\ sending' \in [Emitters -> Handouts]
    BY <1>1, <1>2 DEF Handouts
<1>4. \/ stream' = [stream EXCEPT ![s].dropped = @ \cup {event}]
      \/ stream' = [stream EXCEPT ![s].inbox = Append(@, event)]
    BY DEF Deliver
<1> HIDE DEF event
<1>5. /\ \A q \in Streams \ {s} : stream'[q] = stream[q]
      /\ stream'[s].at = stream[s].at /\ stream'[s].shown = stream[s].shown
      /\ stream' \in [Streams -> StreamRows]
      /\ \/ stream'[s].dropped = stream[s].dropped \cup {event} /\ stream'[s].inbox = stream[s].inbox
         \/ stream'[s].dropped = stream[s].dropped /\ stream'[s].inbox = Append(stream[s].inbox, event)
  <2>1. CASE stream' = [stream EXCEPT ![s].dropped = @ \cup {event}]
    BY <1>1, <2>1 DEF StreamRows
  <2>2. CASE stream' = [stream EXCEPT ![s].inbox = Append(@, event)]
    <3>1. Append(stream[s].inbox, event) \in Seq(Events)
        BY <1>1 DEF StreamRows
    <3> QED  BY <1>1, <2>2, <3>1 DEF StreamRows
  <2> QED  BY <1>4, <2>1, <2>2
<1>6. BusTypeOK'
    BY <1>1, <1>2, <1>3, <1>5 DEF BusInv, BusTypeOK, event
<1>7. ASSUME NEW q \in Streams PROVE NoGap(q)'
  <2>1. NoGap(q)
    BY DEF BusInv
  <2>2. CASE q = s
    <3>0. ToSet(Append(stream[s].inbox, event)) = ToSet(stream[s].inbox) \cup {event}
      <4>1. stream[s].inbox \in Seq(Events)
        BY <1>1 DEF StreamRows
      <4> QED  BY <1>1, <4>1, AppendedSet
    <3>1. \/ ToSet(stream'[s].inbox) = ToSet(stream[s].inbox)
          \/ ToSet(stream'[s].inbox) = ToSet(stream[s].inbox) \cup {event}
        BY <1>5, <3>0
    <3>2. event \in stream'[s].dropped \cup ToSet(stream'[s].inbox)
        BY <1>5, <3>0
    <3>3. ToSet(stream[s].inbox) \subseteq ToSet(stream'[s].inbox) /\ stream[s].dropped \subseteq stream'[s].dropped
        BY <1>5, <3>1
    <3>4. ASSUME NEW old, OnItsWay(old, s) PROVE OnItsWay(old, s)' \/ old = event
        BY <1>3, <3>3, <3>4 DEF OnItsWay, event
    <3> QED  BY <1>2, <1>5, <2>1, <2>2, <3>2, <3>3, <3>4 DEF NoGap, OnItsWay
  <2>3. CASE q # s
    <3>1. ASSUME NEW old, OnItsWay(old, q) PROVE OnItsWay(old, q)'
        BY <1>3, <1>5, <2>3, <3>1 DEF OnItsWay, event
    <3> QED  BY <1>2, <1>5, <2>1, <2>3, <3>1 DEF NoGap
  <2> QED  BY <2>2, <2>3
<1>8. ASSUME NEW f \in Emitters PROVE LogInOrder(f)'
  <2>1. InOrder(taskLog[f], sending[f], clears, nextId)
    BY DEF BusInv, LogInOrder
  <2>2. InOrder(taskLog[f], sending'[f], clears, nextId)
    BY <1>1, <1>3, <2>1 DEF InOrder, event
  <2> QED  BY <1>2, <2>2 DEF LogInOrder
<1> QED  BY <1>6, <1>7, <1>8 DEF BusInv

LEMMA LogEventStep ==
    ASSUME BusInv, NEW e \in Emitters, LogEvent(e)
    PROVE  BusInv'
<1> DEFINE event == sending[e].event
<1>1. /\ sending \in [Emitters -> Handouts] /\ taskLog \in [Emitters -> Seq(Events)]
      /\ sending[e] # Idle /\ sending[e].to = {} /\ event \in Events /\ Idle \in Handouts
    BY DEF BusInv, BusTypeOK, LogEvent, Idle, Handouts
<1>2. /\ sending' = [sending EXCEPT ![e] = Idle]
      /\ UNCHANGED <<log, nextId, clears, stats, listeners, stream, emitted>>
      /\ taskLog' = taskLog \/ taskLog' = [taskLog EXCEPT ![e] = Append(@, event)]
    BY DEF LogEvent
<1> HIDE DEF event
<1>3. /\ sending'[e] = Idle /\ \A f \in Emitters \ {e} : sending'[f] = sending[f]
      /\ sending' \in [Emitters -> Handouts]
    BY <1>1, <1>2
<1>4. /\ taskLog' \in [Emitters -> Seq(Events)]
      /\ \A f \in Emitters \ {e} : taskLog'[f] = taskLog[f]
      /\ taskLog'[e] = taskLog[e] \/ taskLog'[e] = Append(taskLog[e], event)
  <2>1. Append(taskLog[e], event) \in Seq(Events)
    BY <1>1
  <2> QED  BY <1>1, <1>2, <2>1
<1>5. BusTypeOK'
    BY <1>1, <1>2, <1>3, <1>4 DEF BusInv, BusTypeOK
<1>6. ASSUME NEW s \in Streams PROVE NoGap(s)'
  <2>1. NoGap(s)
    BY DEF BusInv
  <2>2. ASSUME NEW old, OnItsWay(old, s) PROVE OnItsWay(old, s)'
    BY <1>1, <1>2, <1>3, <2>2 DEF OnItsWay
  <2> QED  BY <1>2, <2>1, <2>2 DEF NoGap
<1>7. ASSUME NEW f \in Emitters PROVE LogInOrder(f)'
  <2>1. InOrder(taskLog[f], sending[f], clears, nextId) /\ taskLog[f] \in Seq(Events)
    BY <1>1 DEF BusInv, LogInOrder
  <2>2. InOrder(taskLog'[f], sending'[f], clears, nextId)
    <3>1. CASE f # e
        BY <1>3, <1>4, <2>1, <3>1
    <3>2. CASE f = e /\ taskLog'[e] = taskLog[e]
        BY <1>3, <2>1, <3>2 DEF InOrder
    <3>3. CASE f = e /\ taskLog'[e] = Append(taskLog[e], event)
        BY <1>1, <1>3, <2>1, <3>3, Logs DEF event
    <3> QED  BY <1>4, <3>1, <3>2, <3>3
  <2> QED  BY <1>2, <2>2 DEF LogInOrder
<1> QED  BY <1>5, <1>6, <1>7 DEF BusInv

LEMMA ClearStep ==
    ASSUME BusInv, ClearBus
    PROVE  BusInv'
<1>1. /\ log' = <<>> /\ nextId' = 1 /\ clears' = clears + 1 /\ clears \in Nat /\ nextId \in Nat
      /\ UNCHANGED <<listeners, sending, stream, taskLog, emitted>>
    BY DEF ClearBus, BusInv, BusTypeOK
<1>2. BusTypeOK'
    BY <1>1 DEF BusInv, BusTypeOK
<1>3. ToSet(log') = {}
    BY <1>1 DEF ToSet
<1>4. ASSUME NEW s \in Streams PROVE NoGap(s)'
    BY <1>1, <1>3 DEF BusInv, NoGap
<1>5. ASSUME NEW f \in Emitters PROVE LogInOrder(f)'
  <2>1. InOrder(taskLog[f], sending[f], clears, nextId) /\ taskLog[f] \in Seq(Events)
        /\ (sending[f] = Idle \/ sending[f].event \in Events)
    BY DEF BusInv, LogInOrder, BusTypeOK
  <2>2. InOrder(taskLog[f], sending[f], clears + 1, 1)
    BY <1>1, <2>1, ClearPasses
  <2> QED  BY <1>1, <2>2 DEF LogInOrder
<1> QED  BY <1>2, <1>4, <1>5 DEF BusInv

\* A stream that moves on: the others see nothing of it.
LEMMA StreamMoves ==
    ASSUME BusInv, NEW s \in Streams,
           UNCHANGED <<log, nextId, clears, sending, taskLog>>,
           stream' \in [Streams -> StreamRows],
           \A q \in Streams \ {s} : stream'[q] = stream[q] /\ (q \in listeners' <=> q \in listeners),
           listeners' \subseteq Streams, NoGap(s)'
    PROVE  BusInv'
<1>1. BusTypeOK'
    BY DEF BusInv, BusTypeOK
<1>2. ASSUME NEW q \in Streams PROVE NoGap(q)'
  <2>1. CASE q = s  BY <2>1
  <2>2. CASE q # s  BY <2>2 DEF BusInv, NoGap, OnItsWay
  <2> QED  BY <2>1, <2>2
<1>3. ASSUME NEW f \in Emitters PROVE LogInOrder(f)'
    BY DEF BusInv, LogInOrder
<1> QED  BY <1>1, <1>2, <1>3 DEF BusInv

LEMMA ListenStep ==
    ASSUME BusInv, NEW s \in Streams, Listen(s)
    PROVE  BusInv'
<1>1. /\ stream \in [Streams -> StreamRows] /\ listeners \subseteq Streams
      /\ stream' = [stream EXCEPT ![s].at = "listening"] /\ listeners' = listeners \cup {s}
      /\ UNCHANGED <<log, nextId, clears, sending, taskLog>>
    BY DEF Listen, BusInv, BusTypeOK
<1>2. /\ stream' \in [Streams -> StreamRows] /\ stream'[s].at = "listening"
      /\ \A q \in Streams \ {s} : stream'[q] = stream[q]
    BY <1>1 DEF StreamRows
<1>3. NoGap(s)'
    BY <1>1, <1>2 DEF NoGap
<1> QED  BY <1>1, <1>2, <1>3, StreamMoves

LEMMA UnlistenStep ==
    ASSUME BusInv, NEW s \in Streams, Unlisten(s)
    PROVE  BusInv'
<1>1. /\ stream \in [Streams -> StreamRows] /\ listeners \subseteq Streams
      /\ stream' = [stream EXCEPT ![s].at = "closed"] /\ listeners' = listeners \ {s}
      /\ UNCHANGED <<log, nextId, clears, sending, taskLog>>
    BY DEF Unlisten, BusInv, BusTypeOK
<1>2. /\ stream' \in [Streams -> StreamRows] /\ stream'[s].at = "closed"
      /\ \A q \in Streams \ {s} : stream'[q] = stream[q]
    BY <1>1 DEF StreamRows
<1>3. NoGap(s)'
    BY <1>1, <1>2 DEF NoGap
<1> QED  BY <1>1, <1>2, <1>3, StreamMoves

LEMMA ReplayStep ==
    ASSUME BusInv, NEW s \in Streams, Replay(s)
    PROVE  BusInv'
<1>1. /\ stream \in [Streams -> StreamRows] /\ listeners \subseteq Streams
      /\ stream[s].at = "listening"
      /\ stream' = [stream EXCEPT ![s].at = "live", ![s].shown = ToSet(log)]
      /\ UNCHANGED <<log, nextId, clears, sending, taskLog, listeners>>
    BY DEF Replay, BusInv, BusTypeOK
<1>2. ToSet(log) \subseteq Events
    BY DEF BusInv, BusTypeOK, ToSet
<1>3. stream'[s] = [stream[s] EXCEPT !.at = "live", !.shown = ToSet(log)]
    BY <1>1
<1>4. stream'[s] = [at |-> "live", shown |-> ToSet(log), inbox |-> stream[s].inbox,
                    dropped |-> stream[s].dropped]
    BY <1>1, <1>3 DEF StreamRows
<1>5. stream'[s] \in StreamRows
    BY <1>1, <1>2, <1>4 DEF StreamRows
<1>6. \A q \in Streams \ {s} : stream'[q] = stream[q]
    BY <1>1
<1>7. stream' = [q \in Streams |-> stream'[q]]
    BY <1>1
<1>8. stream' \in [Streams -> StreamRows]
    BY <1>1, <1>5, <1>6, <1>7
<1>9. NoGap(s)'
    BY <1>1, <1>4 DEF NoGap, BusInv
<1> QED  BY <1>1, <1>6, <1>8, <1>9, StreamMoves

LEMMA ReceiveStep ==
    ASSUME BusInv, NEW s \in Streams, Receive(s)
    PROVE  BusInv'
<1> DEFINE inbox == stream[s].inbox
<1>1. /\ stream \in [Streams -> StreamRows] /\ listeners \subseteq Streams
      /\ stream[s].at = "live" /\ inbox # <<>> /\ inbox \in Seq(Events)
      /\ stream' = [stream EXCEPT ![s].shown = @ \cup {Head(stream[s].inbox)}, ![s].inbox = Tail(@)]
      /\ UNCHANGED <<log, nextId, clears, sending, taskLog, listeners>>
    BY DEF Receive, BusInv, BusTypeOK, StreamRows
<1>2. /\ ToSet(inbox) = {Head(inbox)} \cup ToSet(Tail(inbox))
      /\ Tail(inbox) \in Seq(Events) /\ Head(inbox) \in Events
    BY <1>1, TailSet
<1>3. stream'[s] = [stream[s] EXCEPT !.shown = @ \cup {Head(stream[s].inbox)}, !.inbox = Tail(@)]
    BY <1>1
<1>4. stream'[s] = [at |-> stream[s].at, shown |-> stream[s].shown \cup {Head(inbox)},
                    inbox |-> Tail(inbox), dropped |-> stream[s].dropped]
    BY <1>1, <1>3 DEF StreamRows
<1>5. stream'[s] \in StreamRows
    BY <1>1, <1>2, <1>4 DEF StreamRows
<1>6. \A q \in Streams \ {s} : stream'[q] = stream[q]
    BY <1>1
<1>7. stream' = [q \in Streams |-> stream'[q]]
    BY <1>1
<1>8. stream' \in [Streams -> StreamRows]
    BY <1>1, <1>5, <1>6, <1>7
<1>9. NoGap(s)'
  <2>1. NoGap(s)
    BY DEF BusInv
  <2>2. /\ stream'[s].shown = stream[s].shown \cup {Head(inbox)} /\ stream'[s].inbox = Tail(inbox)
        /\ stream'[s].dropped = stream[s].dropped /\ stream'[s].at = stream[s].at
    BY <1>4
  <2>3. ASSUME NEW old, OnItsWay(old, s), old # Head(inbox) PROVE OnItsWay(old, s)'
    BY <1>1, <1>2, <2>2, <2>3 DEF OnItsWay
  <2> QED  BY <1>1, <2>1, <2>2, <2>3 DEF NoGap
<1> QED  BY <1>1, <1>6, <1>8, <1>9, StreamMoves

LEMMA BusStep == BusInv /\ [BusNext]_busVars => BusInv'
<1> SUFFICES ASSUME BusInv, [BusNext]_busVars PROVE BusInv'
    OBVIOUS
<1>1. CASE UNCHANGED busVars
    BY <1>1 DEF busVars, BusInv, BusTypeOK, NoGap, OnItsWay, LogInOrder
<1>2. CASE BusNext
    BY <1>2, EmitStep, DeliverStep, LogEventStep, ListenStep, ReplayStep, ReceiveStep,
       UnlistenStep, ClearStep DEF BusNext
<1> QED  BY <1>1, <1>2

\* A client that was given the replay has no gap, and the log of a task is in
\* the order of its events, whichever threads emit at the same time, however the
\* queues fill up and the log is trimmed or cleared (progress.py emit,
\* runtime.py event_stream, task_logs.py).
THEOREM StreamsStayWhole == BusSpec => []StreamsMissNothing
<1>1. BusInv => StreamsMissNothing
  <2> SUFFICES ASSUME BusInv PROVE StreamsMissNothing
    OBVIOUS
  <2>1. \A s \in Streams : NoGap(s)
    BY DEF BusInv
  <2>2. \A e \in Emitters : InOrder(taskLog[e], sending[e], clears, nextId)
    BY DEF BusInv, LogInOrder
  <2> QED  BY <2>1, <2>2 DEF StreamsMissNothing, NoGap, InOrder, Earlier
<1> QED  BY <1>1, BusInitially, BusStep, PTL DEF BusSpec

-----------------------------------------------------------------------------
(* The views of a run                                                       *)

ViewStates == ViewActive \cup ViewTerminal \cup {"absent"}
Checkpoints == {"none", "succeeded", "completed_with_errors"}
OverlayFields == {"known", "state", "events", "steps"}

ViewTypeOK ==
    /\ vstate \in [ViewTasks -> ViewStates]
    /\ vsaved \in [ViewSteps -> Checkpoints]
    /\ DOMAIN overlay = OverlayFields
    /\ DOMAIN draft = ViewTasks
    /\ \A t \in ViewTasks : DOMAIN draft[t] = OverlayFields

\* What the handlers keep and are about to write is of a step that has a row.
KeptHasRow ==
    \A s \in ViewSteps : ~HasRow(s) =>
        /\ overlay.steps[s].status = "idle"
        /\ \A t \in ViewTasks : draft[t].steps[s].status = "idle"

ViewInv == ViewTypeOK /\ KeptHasRow

LEMMA NoOverlayType ==
    /\ DOMAIN NoOverlay = OverlayFields
    /\ \A s \in ViewSteps : NoOverlay.steps[s].status = "idle"
BY DEF NoOverlay, NoStep, OverlayFields

LEMMA ViewInitially == ViewInit => ViewInv
<1> SUFFICES ASSUME ViewInit PROVE ViewInv
    OBVIOUS
<1>1. ViewTypeOK
    BY NoOverlayType DEF ViewInit, ViewTypeOK, ViewStates, Checkpoints
<1>2. KeptHasRow
    BY NoOverlayType DEF ViewInit, KeptHasRow
<1> QED  BY <1>1, <1>2 DEF ViewInv

\* A row does not go while the tasks stay known and the checkpoints stay.
LEMMA RowsStay ==
    ASSUME \A t \in ViewTasks : vstate[t] # "absent" => vstate'[t] # "absent",
           \A s \in ViewSteps : vsaved[s] # "none" => vsaved'[s] # "none",
           NEW s \in ViewSteps, HasRow(s)
    PROVE  HasRow(s)'
BY DEF HasRow, TasksOf, ViewKnown

\* A snapshot of a step without a row shows what is kept.
LEMMA SnapshotIdle ==
    ASSUME KeptHasRow, NEW s \in ViewSteps, ~HasRow(s)
    PROVE  Snapshot(s).status = "idle"
<1>1. TasksOf(s) = {} /\ vsaved[s] = "none"
    BY DEF HasRow
<1>2. StatesOf(TasksOf(s)) = {}
    BY <1>1 DEF StatesOf
<1>3. StepStatus(s, overlay.steps[s].status) = overlay.steps[s].status
    BY <1>1, <1>2 DEF StepStatus
<1> QED  BY <1>3 DEF Snapshot, KeptHasRow

LEMMA ViewStep == ViewInv /\ [ViewNext]_viewVars => ViewInv'
<1> SUFFICES ASSUME ViewInv, [ViewNext]_viewVars PROVE ViewInv'
    OBVIOUS
<1>0. ViewTypeOK /\ KeptHasRow
    BY DEF ViewInv
<1>1. CASE UNCHANGED viewVars
    BY <1>1 DEF viewVars, ViewInv, ViewTypeOK, KeptHasRow, HasRow, TasksOf, ViewKnown
<1>2. ASSUME NEW t \in ViewTasks, ViewClaim(t) \/ ViewCommand(t) \/ ViewEnd(t) PROVE ViewInv'
  <2>1. /\ \E s \in ViewStates \ {"absent"} : vstate' = [vstate EXCEPT ![t] = s]
        /\ \/ vsaved' = vsaved
           \/ \E status \in Checkpoints \ {"none"} : vsaved' = [vsaved EXCEPT ![StepOf[t]] = status]
        /\ UNCHANGED <<overlay, draft>>
    BY <1>2 DEF ViewClaim, ViewCommand, ViewEnd, ViewStates, ViewActive, ViewTerminal,
        ViewPassed, Checkpoints
  <2>2. ViewTypeOK'
    BY <1>0, <2>1 DEF ViewTypeOK
  <2>3. /\ \A u \in ViewTasks : vstate[u] # "absent" => vstate'[u] # "absent"
        /\ \A s \in ViewSteps : vsaved[s] # "none" => vsaved'[s] # "none"
    BY <1>0, <2>1 DEF ViewTypeOK
  <2>4. KeptHasRow'
    BY <1>0, <2>1, <2>3, RowsStay DEF KeptHasRow
  <2> QED  BY <2>2, <2>4 DEF ViewInv
<1>3. ASSUME NEW t \in ViewTasks, ViewSync(t) PROVE ViewInv'
  <2>1. UNCHANGED <<vstate, vsaved, overlay>> /\ DOMAIN draft' = ViewTasks
    BY <1>0, <1>3 DEF ViewSync, ViewTypeOK
  <2>2. /\ draft'[t].steps = [s \in ViewSteps |-> Snapshot(s)] /\ DOMAIN draft'[t] = OverlayFields
        /\ \A u \in ViewTasks \ {t} : draft'[u] = draft[u]
    BY <1>0, <1>3 DEF ViewSync, ViewTypeOK, OverlayFields
  <2>3. ViewTypeOK'
    BY <1>0, <2>1, <2>2 DEF ViewTypeOK
  <2>4. KeptHasRow'
    BY <1>0, <2>1, <2>2, SnapshotIdle DEF KeptHasRow, HasRow, TasksOf, ViewKnown
  <2> QED  BY <2>3, <2>4 DEF ViewInv
<1>4. ASSUME NEW t \in ViewTasks, ViewWrite(t) PROVE ViewInv'
  <2>1. UNCHANGED <<vstate, vsaved>> /\ draft' = [draft EXCEPT ![t] = NoOverlay]
        /\ overlay' = [draft[t] EXCEPT !.events = overlay.events]
    BY <1>4 DEF ViewWrite
  <2>2. DOMAIN overlay' = OverlayFields /\ overlay'.steps = draft[t].steps
    BY <1>0, <2>1 DEF ViewTypeOK, OverlayFields
  <2>3. ViewTypeOK'
    BY <1>0, <2>1, <2>2, NoOverlayType DEF ViewTypeOK
  <2>4. KeptHasRow'
    BY <1>0, <2>1, <2>2, NoOverlayType DEF KeptHasRow, HasRow, TasksOf, ViewKnown, ViewTypeOK
  <2> QED  BY <2>3, <2>4 DEF ViewInv
<1>5. ASSUME NEW t \in ViewTasks, ViewAppend(t) PROVE ViewInv'
  <2>1. UNCHANGED <<vstate, vsaved, overlay>>
        /\ draft' = [draft EXCEPT ![t] = [overlay EXCEPT !.events = @ \cup {t}]]
    BY <1>5 DEF ViewAppend
  <2>2. /\ draft'[t].steps = overlay.steps /\ DOMAIN draft'[t] = OverlayFields
        /\ DOMAIN draft' = ViewTasks
        /\ \A u \in ViewTasks \ {t} : draft'[u] = draft[u]
    BY <1>0, <2>1 DEF ViewTypeOK, OverlayFields
  <2>3. ViewTypeOK'
    BY <1>0, <2>1, <2>2 DEF ViewTypeOK
  <2>4. KeptHasRow'
    BY <1>0, <2>1, <2>2 DEF KeptHasRow, HasRow, TasksOf, ViewKnown
  <2> QED  BY <2>3, <2>4 DEF ViewInv
<1>6. ASSUME NEW t \in ViewTasks, ViewStore(t) PROVE ViewInv'
  <2>1. UNCHANGED <<vstate, vsaved>> /\ draft' = [draft EXCEPT ![t] = NoOverlay]
        /\ overlay' = [overlay EXCEPT !.events = draft[t].events, !.steps = draft[t].steps]
    BY <1>6 DEF ViewStore
  <2>2. DOMAIN overlay' = OverlayFields /\ overlay'.steps = draft[t].steps
    BY <1>0, <2>1 DEF ViewTypeOK, OverlayFields
  <2>3. ViewTypeOK'
    BY <1>0, <2>1, <2>2, NoOverlayType DEF ViewTypeOK
  <2>4. KeptHasRow'
    BY <1>0, <2>1, <2>2, NoOverlayType DEF KeptHasRow, HasRow, TasksOf, ViewKnown, ViewTypeOK
  <2> QED  BY <2>3, <2>4 DEF ViewInv
<1>7. CASE ViewSyncRun
  <2>1. PICK state : /\ UNCHANGED <<vstate, vsaved, draft>>
                     /\ overlay' = [overlay EXCEPT !.known = TRUE, !.state = state,
                                                   !.steps = [s \in ViewSteps |-> Snapshot(s)]]
    BY <1>7 DEF ViewSyncRun
  <2>2. DOMAIN overlay' = OverlayFields /\ overlay'.steps = [s \in ViewSteps |-> Snapshot(s)]
    BY <1>0, <2>1 DEF ViewTypeOK, OverlayFields
  <2>3. ViewTypeOK'
    BY <1>0, <2>1, <2>2 DEF ViewTypeOK
  <2>4. KeptHasRow'
    BY <1>0, <2>1, <2>2, SnapshotIdle DEF KeptHasRow, HasRow, TasksOf, ViewKnown
  <2> QED  BY <2>3, <2>4 DEF ViewInv
<1>8. CASE ViewRestart
  <2>1. /\ vstate' = [t \in ViewTasks |-> "absent"] /\ vsaved' = vsaved
        /\ overlay' = NoOverlay /\ draft' = [t \in ViewTasks |-> NoOverlay]
    BY <1>8 DEF ViewRestart
  <2>2. ViewTypeOK'
    BY <1>0, <2>1, NoOverlayType DEF ViewTypeOK, ViewStates
  <2>3. KeptHasRow'
    BY <2>1, NoOverlayType DEF KeptHasRow
  <2> QED  BY <2>2, <2>3 DEF ViewInv
<1> QED  BY <1>1, <1>2, <1>3, <1>4, <1>5, <1>6, <1>7, <1>8 DEF ViewNext

-----------------------------------------------------------------------------
(* What the first status of a list is                                       *)

LEMMA FirstIsFound ==
    ASSUME NEW list, NEW S, NEW default, DOMAIN list \subseteq Int,
           NEW k \in DOMAIN list, list[k] \in S,
           \A j \in DOMAIN list : list[j] \in S => k <= j
    PROVE  FirstIn(list, S, default) = list[k]
<1> DEFINE hits == {i \in DOMAIN list : list[i] \in S}
           least == CHOOSE i \in hits : \A j \in hits : i <= j
<1>1. k \in hits /\ hits \subseteq Int /\ \A j \in hits : k <= j
    OBVIOUS
<1>2. FirstIn(list, S, default) = list[least]
    BY <1>1 DEF FirstIn
<1> HIDE DEF hits
<1>3. least \in hits /\ \A j \in hits : least <= j
  <2>1. \E i \in hits : \A j \in hits : i <= j
    BY <1>1
  <2> QED  BY <2>1
<1> HIDE DEF least
<1>4. least = k
    BY <1>1, <1>3
<1> QED  BY <1>2, <1>4

LEMMA FirstIsDefault ==
    ASSUME NEW list, NEW S, NEW default, \A j \in DOMAIN list : list[j] \notin S
    PROVE  FirstIn(list, S, default) = default
BY DEF FirstIn

LEMMA FirstOfThree ==
    ASSUME NEW S, NEW a, NEW b, NEW c, NEW default
    PROVE  FirstIn(<<a, b, c>>, S, default) =
              IF a \in S THEN a ELSE IF b \in S THEN b ELSE IF c \in S THEN c ELSE default
<1> DEFINE list == <<a, b, c>>
<1>1. DOMAIN list = 1 .. 3 /\ list[1] = a /\ list[2] = b /\ list[3] = c
    OBVIOUS
<1> HIDE DEF list
<1>2. CASE a \in S
  <2>1. 1 \in DOMAIN list /\ list[1] \in S /\ \A j \in DOMAIN list : list[j] \in S => 1 <= j
    BY <1>1, <1>2
  <2>2. FirstIn(list, S, default) = list[1]
    BY <1>1, <2>1, FirstIsFound
  <2> QED  BY <1>1, <1>2, <2>2 DEF list
<1>3. CASE a \notin S /\ b \in S
  <2>1. 2 \in DOMAIN list /\ list[2] \in S /\ \A j \in DOMAIN list : list[j] \in S => 2 <= j
    BY <1>1, <1>3
  <2>2. FirstIn(list, S, default) = list[2]
    BY <1>1, <2>1, FirstIsFound
  <2> QED  BY <1>1, <1>3, <2>2 DEF list
<1>4. CASE a \notin S /\ b \notin S /\ c \in S
  <2>1. 3 \in DOMAIN list /\ list[3] \in S /\ \A j \in DOMAIN list : list[j] \in S => 3 <= j
    BY <1>1, <1>4
  <2>2. FirstIn(list, S, default) = list[3]
    BY <1>1, <2>1, FirstIsFound
  <2> QED  BY <1>1, <1>4, <2>2 DEF list
<1>5. CASE a \notin S /\ b \notin S /\ c \notin S
  <2>1. \A j \in DOMAIN list : list[j] \notin S
    BY <1>1, <1>5
  <2> QED  BY <1>5, <2>1, FirstIsDefault DEF list
<1> QED  BY <1>2, <1>3, <1>4, <1>5

LEMMA FirstOfFour ==
    ASSUME NEW S, NEW a, NEW b, NEW c, NEW d, NEW default
    PROVE  FirstIn(<<a, b, c, d>>, S, default) =
              IF a \in S THEN a ELSE IF b \in S THEN b ELSE IF c \in S THEN c ELSE IF d \in S THEN d ELSE default
<1> DEFINE list == <<a, b, c, d>>
<1>1. DOMAIN list = 1 .. 4 /\ list[1] = a /\ list[2] = b /\ list[3] = c /\ list[4] = d
    OBVIOUS
<1> HIDE DEF list
<1>2. CASE a \in S
  <2>1. 1 \in DOMAIN list /\ list[1] \in S /\ \A j \in DOMAIN list : list[j] \in S => 1 <= j
    BY <1>1, <1>2
  <2>2. FirstIn(list, S, default) = list[1]
    BY <1>1, <2>1, FirstIsFound
  <2> QED  BY <1>1, <1>2, <2>2 DEF list
<1>3. CASE a \notin S /\ b \in S
  <2>1. 2 \in DOMAIN list /\ list[2] \in S /\ \A j \in DOMAIN list : list[j] \in S => 2 <= j
    BY <1>1, <1>3
  <2>2. FirstIn(list, S, default) = list[2]
    BY <1>1, <2>1, FirstIsFound
  <2> QED  BY <1>1, <1>3, <2>2 DEF list
<1>4. CASE a \notin S /\ b \notin S /\ c \in S
  <2>1. 3 \in DOMAIN list /\ list[3] \in S /\ \A j \in DOMAIN list : list[j] \in S => 3 <= j
    BY <1>1, <1>4
  <2>2. FirstIn(list, S, default) = list[3]
    BY <1>1, <2>1, FirstIsFound
  <2> QED  BY <1>1, <1>4, <2>2 DEF list
<1>5. CASE a \notin S /\ b \notin S /\ c \notin S /\ d \in S
  <2>1. 4 \in DOMAIN list /\ list[4] \in S /\ \A j \in DOMAIN list : list[j] \in S => 4 <= j
    BY <1>1, <1>5
  <2>2. FirstIn(list, S, default) = list[4]
    BY <1>1, <2>1, FirstIsFound
  <2> QED  BY <1>1, <1>5, <2>2 DEF list
<1>6. CASE a \notin S /\ b \notin S /\ c \notin S /\ d \notin S
  <2>1. \A j \in DOMAIN list : list[j] \notin S
    BY <1>1, <1>6
  <2> QED  BY <1>6, <2>1, FirstIsDefault DEF list
<1> QED  BY <1>2, <1>3, <1>4, <1>5, <1>6

LEMMA FirstOfFive ==
    ASSUME NEW S, NEW a, NEW b, NEW c, NEW d, NEW e, NEW default
    PROVE  FirstIn(<<a, b, c, d, e>>, S, default) =
              IF a \in S THEN a ELSE IF b \in S THEN b ELSE IF c \in S THEN c ELSE IF d \in S THEN d ELSE IF e \in S THEN e ELSE default
<1> DEFINE list == <<a, b, c, d, e>>
<1>1. DOMAIN list = 1 .. 5 /\ list[1] = a /\ list[2] = b /\ list[3] = c /\ list[4] = d /\ list[5] = e
    OBVIOUS
<1> HIDE DEF list
<1>2. CASE a \in S
  <2>1. 1 \in DOMAIN list /\ list[1] \in S /\ \A j \in DOMAIN list : list[j] \in S => 1 <= j
    BY <1>1, <1>2
  <2>2. FirstIn(list, S, default) = list[1]
    BY <1>1, <2>1, FirstIsFound
  <2> QED  BY <1>1, <1>2, <2>2 DEF list
<1>3. CASE a \notin S /\ b \in S
  <2>1. 2 \in DOMAIN list /\ list[2] \in S /\ \A j \in DOMAIN list : list[j] \in S => 2 <= j
    BY <1>1, <1>3
  <2>2. FirstIn(list, S, default) = list[2]
    BY <1>1, <2>1, FirstIsFound
  <2> QED  BY <1>1, <1>3, <2>2 DEF list
<1>4. CASE a \notin S /\ b \notin S /\ c \in S
  <2>1. 3 \in DOMAIN list /\ list[3] \in S /\ \A j \in DOMAIN list : list[j] \in S => 3 <= j
    BY <1>1, <1>4
  <2>2. FirstIn(list, S, default) = list[3]
    BY <1>1, <2>1, FirstIsFound
  <2> QED  BY <1>1, <1>4, <2>2 DEF list
<1>5. CASE a \notin S /\ b \notin S /\ c \notin S /\ d \in S
  <2>1. 4 \in DOMAIN list /\ list[4] \in S /\ \A j \in DOMAIN list : list[j] \in S => 4 <= j
    BY <1>1, <1>5
  <2>2. FirstIn(list, S, default) = list[4]
    BY <1>1, <2>1, FirstIsFound
  <2> QED  BY <1>1, <1>5, <2>2 DEF list
<1>6. CASE a \notin S /\ b \notin S /\ c \notin S /\ d \notin S /\ e \in S
  <2>1. 5 \in DOMAIN list /\ list[5] \in S /\ \A j \in DOMAIN list : list[j] \in S => 5 <= j
    BY <1>1, <1>6
  <2>2. FirstIn(list, S, default) = list[5]
    BY <1>1, <2>1, FirstIsFound
  <2> QED  BY <1>1, <1>6, <2>2 DEF list
<1>7. CASE a \notin S /\ b \notin S /\ c \notin S /\ d \notin S /\ e \notin S
  <2>1. \A j \in DOMAIN list : list[j] \notin S
    BY <1>1, <1>7
  <2> QED  BY <1>7, <2>1, FirstIsDefault DEF list
<1> QED  BY <1>2, <1>3, <1>4, <1>5, <1>6, <1>7

-----------------------------------------------------------------------------
(* What a step, a stage and the run show                                    *)

Unfinished == {"failed", "blocked", "running", "queued", "waiting"}

LEMMA StatesType ==
    ASSUME ViewTypeOK
    PROVE  /\ \A s \in ViewSteps : StatesOf(TasksOf(s)) \subseteq StatesOf(ViewKnown)
           /\ StatesOf(ViewKnown) \subseteq ViewStates \ {"absent"}
           /\ \A t \in ViewKnown : /\ t \in TasksOf(StepOf[t]) /\ StepOf[t] \in ViewSteps
                                   /\ vstate[t] \in StatesOf(TasksOf(StepOf[t]))
                                   /\ vstate[t] \in StatesOf(ViewKnown)
           /\ \A T \in SUBSET ViewTasks : T # {} => StatesOf(T) # {}
<1>1. \A T \in SUBSET ViewTasks : \A t \in T : vstate[t] \in StatesOf(T)
    BY DEF StatesOf
<1>2. \A t \in ViewKnown : t \in ViewTasks /\ vstate[t] \in ViewStates \ {"absent"}
    BY DEF ViewKnown, ViewTypeOK
<1>3. \A s \in ViewSteps : TasksOf(s) \subseteq ViewKnown /\ TasksOf(s) \subseteq ViewTasks
    BY <1>2 DEF TasksOf
<1>4. \A t \in ViewKnown : t \in TasksOf(StepOf[t]) /\ StepOf[t] \in ViewSteps
    BY <1>2, ViewAssumption DEF TasksOf
<1>5. \A s \in ViewSteps : StatesOf(TasksOf(s)) \subseteq StatesOf(ViewKnown)
    BY <1>3 DEF StatesOf
<1>6. StatesOf(ViewKnown) \subseteq ViewStates \ {"absent"}
    BY <1>2 DEF StatesOf
<1>7. ViewKnown \subseteq ViewTasks
    BY <1>2
<1>8. \A T \in SUBSET ViewTasks : T # {} => StatesOf(T) # {}
    BY <1>1
<1> QED  BY <1>1, <1>3, <1>4, <1>5, <1>6, <1>7, <1>8

LEMMA StatusByTasks ==
    ASSUME NEW s, NEW default, NEW S, S = StatesOf(TasksOf(s)), S # {}
    PROVE  /\ "failed" \in S => StepStatus(s, default) = "failed"
           /\ "failed" \notin S /\ "blocked" \in S => StepStatus(s, default) = "blocked"
           /\ {"failed", "blocked"} \cap S = {} /\ "running" \in S => StepStatus(s, default) = "running"
           /\ {"failed", "blocked", "running"} \cap S = {} /\ {"queued", "waiting"} \cap S # {}
                 => StepStatus(s, default) = "queued"
           /\ Unfinished \cap S = {} /\ S = {"succeeded"} => StepStatus(s, default) = "succeeded"
           /\ Unfinished \cap S = {} /\ S # {"succeeded"} => StepStatus(s, default) = "partial"
<1> DEFINE ended == IF S = {"succeeded"} THEN "succeeded" ELSE "partial"
<1>1. StepStatus(s, default) =
        IF S \cap {"queued", "waiting"} # {} /\ S \cap {"failed", "blocked", "running"} = {}
        THEN "queued" ELSE FirstIn(<<"failed", "blocked", "running">>, S, ended)
    BY DEF StepStatus
<1>2. FirstIn(<<"failed", "blocked", "running">>, S, ended) =
        IF "failed" \in S THEN "failed" ELSE IF "blocked" \in S THEN "blocked"
        ELSE IF "running" \in S THEN "running" ELSE ended
    BY FirstOfThree
<1> QED  BY <1>1, <1>2 DEF Unfinished

\* What is kept of a step with tasks does not show.
LEMMA MergedStatus ==
    ASSUME ViewInv, NEW s \in ViewSteps
    PROVE  /\ TasksOf(s) # {} => Merge(s).status = StepStatus(s, "idle")
           /\ TasksOf(s) = {} => Merge(s).status \in {"idle", "succeeded", "completed_with_errors"}
<1>1. CASE TasksOf(s) # {}
    BY <1>1 DEF Merge, HasRow, Row
<1>2. CASE TasksOf(s) = {} /\ vsaved[s] # "none"
  <2>1. StatesOf(TasksOf(s)) = {}
    BY <1>2 DEF StatesOf
  <2>2. StepStatus(s, "idle") = vsaved[s]
    BY <1>2, <2>1 DEF StepStatus
  <2>3. Merge(s).status = vsaved[s]
    BY <1>2, <2>2 DEF Merge, HasRow, Row
  <2> QED  BY <1>2, <2>3 DEF ViewInv, ViewTypeOK, Checkpoints
<1>3. CASE TasksOf(s) = {} /\ vsaved[s] = "none"
    BY <1>3 DEF Merge, HasRow, ViewInv, KeptHasRow
<1> QED  BY <1>1, <1>2, <1>3

StageSet(p) == {Merge(s).status : s \in {s \in DOMAIN StageOf : StageOf[s] = p}} \ {"idle"}

LEMMA StageShows ==
    ASSUME NEW p
    PROVE  StageStatus(p) \in {"idle", "skipped"} \cup {Merge(s).status : s \in ViewSteps}
<1>1. StageStatus(p) = IF Aggregate(StageSet(p)) = "idle" /\ p \in Disabled THEN "skipped"
                       ELSE Aggregate(StageSet(p))
    BY DEF StageStatus, StageSet
<1>2. StageSet(p) \subseteq {Merge(s).status : s \in ViewSteps}
    BY ViewAssumption DEF StageSet
<1>3. Aggregate(StageSet(p)) \in {"idle"} \cup StageSet(p)
  <2> DEFINE S == StageSet(p)
             other == IF S = {"succeeded"} THEN "succeeded" ELSE CHOOSE x \in S : TRUE
  <2>1. CASE S = {}
    BY <2>1 DEF Aggregate
  <2>2. CASE S # {}
    <3>1. Aggregate(S) = FirstIn(<<"failed", "blocked", "running", "queued", "partial">>, S, other)
        BY <2>2 DEF Aggregate
    <3>2. other \in S
        BY <2>2
    <3> HIDE DEF S, other
    <3>3. Aggregate(S) \in {"failed", "blocked", "running", "queued", "partial"} \cap S \/ Aggregate(S) = other
        BY <3>1, FirstOfFive
    <3> QED  BY <3>2, <3>3 DEF S
  <2> QED  BY <2>1, <2>2
<1> QED  BY <1>1, <1>2, <1>3

\* The worst status of all steps is that of its stage, if it has one.
LEMMA StageTakes ==
    ASSUME NEW s \in DOMAIN StageOf, NEW x \in {"failed", "blocked", "running", "queued"},
           Merge(s).status = x,
           \A q \in ViewSteps : Merge(q).status = "failed" => x = "failed",
           \A q \in ViewSteps : Merge(q).status = "blocked" => x \in {"failed", "blocked"},
           \A q \in ViewSteps : Merge(q).status = "running" => x \in {"failed", "blocked", "running"}
    PROVE  /\ StageStatus(StageOf[s]) = x
           /\ StageOf[s] \in Stages
<1> DEFINE S == StageSet(StageOf[s])
           other == IF S = {"succeeded"} THEN "succeeded" ELSE CHOOSE y \in S : TRUE
<1>1. x \in S /\ S # {}
    BY DEF StageSet
<1>2. /\ "failed" \in S => x = "failed"
      /\ "blocked" \in S => x \in {"failed", "blocked"}
      /\ "running" \in S => x \in {"failed", "blocked", "running"}
    BY ViewAssumption DEF StageSet
<1>3. Aggregate(S) = FirstIn(<<"failed", "blocked", "running", "queued", "partial">>, S, other)
    BY <1>1 DEF Aggregate
<1>4. StageStatus(StageOf[s]) = IF Aggregate(S) = "idle" /\ StageOf[s] \in Disabled THEN "skipped"
                                ELSE Aggregate(S)
    BY DEF StageStatus, StageSet
<1> HIDE DEF S, other
<1>5. Aggregate(S) = IF "failed" \in S THEN "failed" ELSE IF "blocked" \in S THEN "blocked"
                     ELSE IF "running" \in S THEN "running" ELSE IF "queued" \in S THEN "queued"
                     ELSE IF "partial" \in S THEN "partial" ELSE other
    BY <1>3, FirstOfFive
<1>6. Aggregate(S) = x
    BY <1>1, <1>2, <1>5
<1> QED  BY <1>4, <1>6, ViewAssumption

\* The state of the run, by its tasks.
LEMMA ShownByTasks ==
    ASSUME NEW S, S = StatesOf(ViewKnown), S # {}
    PROVE  /\ "failed" \in S => ShownState = "failed"
           /\ "failed" \notin S /\ "blocked" \in S => ShownState = "blocked"
           /\ {"failed", "blocked"} \cap S = {} /\ "running" \in S => ShownState = "running"
           /\ {"failed", "blocked", "running"} \cap S = {} /\ {"queued", "waiting"} \cap S # {}
                 => ShownState = "queued"
           /\ Unfinished \cap S = {} /\ S = {"succeeded"} => ShownState = "succeeded"
           /\ Unfinished \cap S = {} /\ S # {"succeeded"} /\ S \subseteq ViewPassed => ShownState = "partial"
<1> DEFINE byTasks == FirstIn(<<"failed", "blocked", "running", "queued", "waiting">>, S, "none")
<1>1. byTasks = IF "failed" \in S THEN "failed" ELSE IF "blocked" \in S THEN "blocked"
                ELSE IF "running" \in S THEN "running" ELSE IF "queued" \in S THEN "queued"
                ELSE IF "waiting" \in S THEN "waiting" ELSE "none"
    BY FirstOfFive
<1>2. /\ byTasks = "waiting" => ShownState = "queued"
      /\ byTasks \notin {"waiting", "none"} => ShownState = byTasks
      /\ byTasks = "none" /\ S \subseteq ViewPassed =>
            ShownState = IF S = {"succeeded"} THEN "succeeded" ELSE "partial"
    BY DEF ShownState
<1> HIDE DEF byTasks
<1> QED  BY <1>1, <1>2 DEF Unfinished, ViewPassed

\* The merged status of a step is not worse than its tasks.
LEMMA StepsFollowTasks ==
    ASSUME ViewInv, NEW S, S = StatesOf(ViewKnown), NEW s \in ViewSteps
    PROVE  /\ Merge(s).status = "failed" => "failed" \in S
           /\ Merge(s).status = "blocked" => "blocked" \in S
           /\ Merge(s).status = "running" => "running" \in S
           /\ Merge(s).status = "queued" => {"queued", "waiting"} \cap S # {}
           /\ Unfinished \cap S = {} =>
                 Merge(s).status \in {"idle", "succeeded", "completed_with_errors", "partial"}
           /\ S = {"succeeded"} => Merge(s).status \in {"idle", "succeeded", "completed_with_errors"}
<1> DEFINE T == StatesOf(TasksOf(s))
<1>1. T \subseteq S /\ (TasksOf(s) # {} => T # {})
    BY StatesType DEF ViewInv, TasksOf, ViewKnown
<1>2. CASE TasksOf(s) = {}
    BY <1>2, MergedStatus
<1>3. CASE TasksOf(s) # {}
  <2>1. Merge(s).status = StepStatus(s, "idle")
    BY <1>3, MergedStatus
  <2>2. T \subseteq ViewStates \ {"absent"}
    BY <1>1, StatesType DEF ViewInv
  <2> HIDE DEF T
  <2>3. T # {}
    BY <1>1, <1>3
  <2>4. /\ "failed" \in T => StepStatus(s, "idle") = "failed"
        /\ "failed" \notin T /\ "blocked" \in T => StepStatus(s, "idle") = "blocked"
        /\ {"failed", "blocked"} \cap T = {} /\ "running" \in T => StepStatus(s, "idle") = "running"
        /\ {"failed", "blocked", "running"} \cap T = {} /\ {"queued", "waiting"} \cap T # {}
              => StepStatus(s, "idle") = "queued"
        /\ Unfinished \cap T = {} /\ T = {"succeeded"} => StepStatus(s, "idle") = "succeeded"
        /\ Unfinished \cap T = {} /\ T # {"succeeded"} => StepStatus(s, "idle") = "partial"
    BY <2>3, StatusByTasks DEF T
  <2>5. S = {"succeeded"} => T = {"succeeded"}
    BY <1>1, <2>3
  <2> QED  BY <1>1, <2>1, <2>3, <2>4, <2>5 DEF Unfinished
<1> QED  BY <1>2, <1>3

ShownStages == {StageStatus(p) : p \in Stages}
ShownOthers == {Merge(s).status : s \in ViewSteps \ DOMAIN StageOf}

\* A step with the worst status of all is seen in its stage or, without one, for
\* itself, and first.
LEMMA WorstIsShown ==
    ASSUME ViewInv, NEW s \in ViewSteps, NEW x \in {"failed", "blocked", "running", "queued"},
           Merge(s).status = x,
           \A q \in ViewSteps : Merge(q).status = "failed" => x = "failed",
           \A q \in ViewSteps : Merge(q).status = "blocked" => x \in {"failed", "blocked"},
           \A q \in ViewSteps : Merge(q).status = "running" => x \in {"failed", "blocked", "running"}
    PROVE  /\ x \in ShownStages \cup ShownOthers
           /\ FirstIn(<<"failed", "blocked", "running", "queued">>, ShownStages \cup ShownOthers, "queued") = x
<1> DEFINE Levels == ShownStages \cup ShownOthers
<1>1. s \in DOMAIN StageOf => StageStatus(StageOf[s]) = x /\ StageOf[s] \in Stages
    BY StageTakes
<1>2. x \in Levels
    BY <1>1 DEF ShownStages, ShownOthers
<1>3. \A y \in Levels : y \in {"idle", "skipped"} \/ \E q \in ViewSteps : Merge(q).status = y
  <2> SUFFICES ASSUME NEW p \in Stages, StageStatus(p) \notin {"idle", "skipped"}
               PROVE  \E q \in ViewSteps : Merge(q).status = StageStatus(p)
    BY DEF ShownStages, ShownOthers
  <2> QED  BY StageShows
<1>4. /\ "failed" \in Levels => x = "failed"
      /\ "blocked" \in Levels => x \in {"failed", "blocked"}
      /\ "running" \in Levels => x \in {"failed", "blocked", "running"}
    BY <1>3
<1> HIDE DEF Levels
<1>5. FirstIn(<<"failed", "blocked", "running", "queued">>, Levels, "queued") = x
    BY <1>2, <1>4, FirstOfFour
<1> QED  BY <1>2, <1>5 DEF Levels

\* Once the tasks have ended the run shows one of two states.
LEMMA EndedRunShows ==
    ASSUME ViewInv, NEW S, S = StatesOf(ViewKnown), S # {}, Unfinished \cap S = {}
    PROVE  /\ ShownState \in {"succeeded", "partial"}
           /\ ShownState = "succeeded" => S = {"succeeded"}
<1>1. CASE S \subseteq ViewPassed
    BY <1>1, ShownByTasks
<1>2. CASE ~(S \subseteq ViewPassed)
  <2> DEFINE steps == {Merge(s).status : s \in {s \in ViewSteps : HasRow(s)}}
             statuses == IF steps # {} THEN steps ELSE {StageStatus(p) : p \in Stages}
             material == statuses \ {"idle"}
             byTasks == FirstIn(<<"failed", "blocked", "running", "queued", "waiting">>, S, "none")
             bySteps == FirstIn(<<"failed", "blocked", "running", "queued">>, statuses, "none")
  <2>1. ShownState =
          IF byTasks = "waiting" THEN "queued"
          ELSE IF byTasks # "none" THEN byTasks
          ELSE IF S # {} /\ S \subseteq ViewPassed
          THEN IF S = {"succeeded"} THEN "succeeded" ELSE "partial"
          ELSE IF bySteps # "none" THEN bySteps
          ELSE IF material = {"succeeded"} THEN "succeeded"
          ELSE IF "partial" \in material THEN "partial"
          ELSE overlay.state
    BY DEF ShownState
  <2>2. byTasks = "none"
    BY FirstOfFive DEF Unfinished
  <2>3. PICK t \in ViewKnown : vstate[t] \notin ViewPassed
    BY <1>2 DEF StatesOf
  <2>4. /\ t \in TasksOf(StepOf[t]) /\ StepOf[t] \in ViewSteps
        /\ vstate[t] \in StatesOf(TasksOf(StepOf[t]))
        /\ StatesOf(TasksOf(StepOf[t])) \subseteq S
    BY <2>3, StatesType DEF ViewInv
  <2>5. Merge(StepOf[t]).status = "partial" /\ HasRow(StepOf[t])
    <3> DEFINE s == StepOf[t]
               T == StatesOf(TasksOf(s))
    <3>1. vstate[t] \in T /\ T \subseteq S /\ s \in ViewSteps /\ TasksOf(s) # {}
        BY <2>4
    <3>2. Unfinished \cap T = {} /\ T # {} /\ T # {"succeeded"}
        BY <2>3, <3>1 DEF ViewPassed
    <3>3. StepStatus(s, "idle") = "partial"
        BY <3>2, StatusByTasks
    <3> QED  BY <3>1, <3>3, MergedStatus DEF HasRow
  <2>6. "partial" \in steps
    BY <2>4, <2>5
  <2>7. steps \subseteq {"idle", "succeeded", "completed_with_errors", "partial"}
    BY StepsFollowTasks
  <2>8. statuses = steps
    BY <2>6
  <2> HIDE DEF steps, statuses, byTasks
  <2>9. bySteps = "none"
    BY <2>7, <2>8, FirstOfFour
  <2>10. material # {"succeeded"} /\ "partial" \in material
    BY <2>6, <2>8
  <2> HIDE DEF bySteps, material
  <2> QED  BY <1>2, <2>1, <2>2, <2>9, <2>10
<1> QED  BY <1>1, <1>2

\* An active task is in the row of its step.
LEMMA ActiveIsListed ==
    ASSUME ViewInv, NEW t \in ViewKnown, vstate[t] \in ViewActive
    PROVE  t \in Merge(StepOf[t]).queued
<1>1. t \in TasksOf(StepOf[t]) /\ StepOf[t] \in ViewSteps
    BY StatesType DEF ViewInv
<1>2. HasRow(StepOf[t]) /\ t \in Row(StepOf[t]).queued
    BY <1>1 DEF HasRow, Row
<1> QED  BY <1>2 DEF Merge

LEMMA ViewInvAgrees == ViewInv => ViewsAgree
<1> SUFFICES ASSUME ViewInv, ViewKnown # {} PROVE ViewsAgree
    BY DEF ViewsAgree
<1> DEFINE S == StatesOf(ViewKnown)
           worst == <<"failed", "blocked", "running", "queued">>
<1>1. S # {} /\ S \subseteq ViewStates \ {"absent"}
    BY StatesType DEF ViewInv, ViewKnown
<1>2. \A s \in ViewSteps :
        /\ Merge(s).status = "failed" => "failed" \in S
        /\ Merge(s).status = "blocked" => "blocked" \in S
        /\ Merge(s).status = "running" => "running" \in S
        /\ Merge(s).status = "queued" => {"queued", "waiting"} \cap S # {}
    BY StepsFollowTasks
<1>3. \A t \in ViewKnown :
        /\ StepOf[t] \in ViewSteps
        /\ vstate[t] \in StatesOf(TasksOf(StepOf[t]))
        /\ StatesOf(TasksOf(StepOf[t])) \subseteq S
        /\ Merge(StepOf[t]).status = StepStatus(StepOf[t], "idle")
  <2> TAKE t \in ViewKnown
  <2>1. /\ t \in TasksOf(StepOf[t]) /\ StepOf[t] \in ViewSteps
        /\ vstate[t] \in StatesOf(TasksOf(StepOf[t]))
        /\ StatesOf(TasksOf(StepOf[t])) \subseteq S
    BY StatesType DEF ViewInv
  <2> QED  BY <2>1, MergedStatus
<1>4. \A y \in S : \E t \in ViewKnown : vstate[t] = y
    BY DEF StatesOf
<1>5. Unfinished \cap S # {} =>
        /\ ShownState \in ShownStages \cup ShownOthers
        /\ FirstIn(worst, ShownStages \cup ShownOthers, "queued") = ShownState
  <2> HAVE Unfinished \cap S # {}
  <2>1. PICK x \in {"failed", "blocked", "running", "queued"} :
          /\ x = "failed" <=> "failed" \in S
          /\ x = "blocked" <=> "failed" \notin S /\ "blocked" \in S
          /\ x = "running" <=> {"failed", "blocked"} \cap S = {} /\ "running" \in S
          /\ x = "queued" <=> /\ {"failed", "blocked", "running"} \cap S = {}
                              /\ {"queued", "waiting"} \cap S # {}
    <3>1. CASE "failed" \in S  BY <3>1
    <3>2. CASE "failed" \notin S /\ "blocked" \in S  BY <3>2
    <3>3. CASE {"failed", "blocked"} \cap S = {} /\ "running" \in S  BY <3>3
    <3>4. CASE {"failed", "blocked", "running"} \cap S = {}  BY <3>4 DEF Unfinished
    <3> QED  BY <3>1, <3>2, <3>3, <3>4
  <2>2. ShownState = x
    <3> HIDE DEF S
    <3>1. S = StatesOf(ViewKnown)
        BY DEF S
    <3> QED  BY <1>1, <2>1, <3>1, ShownByTasks
  <2>3. PICK t \in ViewKnown : \/ vstate[t] = x
                               \/ x = "queued" /\ vstate[t] \in {"queued", "waiting"}
    BY <1>4, <2>1
  <2>4. Merge(StepOf[t]).status = x
    <3> DEFINE T == StatesOf(TasksOf(StepOf[t]))
    <3>1. vstate[t] \in T /\ T \subseteq S /\ T # {}
        BY <1>3
    <3>2. /\ "failed" \in T => StepStatus(StepOf[t], "idle") = "failed"
          /\ "failed" \notin T /\ "blocked" \in T => StepStatus(StepOf[t], "idle") = "blocked"
          /\ {"failed", "blocked"} \cap T = {} /\ "running" \in T
                => StepStatus(StepOf[t], "idle") = "running"
          /\ {"failed", "blocked", "running"} \cap T = {} /\ {"queued", "waiting"} \cap T # {}
                => StepStatus(StepOf[t], "idle") = "queued"
        BY <3>1, StatusByTasks
    <3> HIDE DEF T, S
    <3>3. StepStatus(StepOf[t], "idle") = x
        BY <2>1, <2>3, <3>1, <3>2
    <3> QED  BY <1>3, <3>3
  <2>5. /\ \A q \in ViewSteps : Merge(q).status = "failed" => x = "failed"
        /\ \A q \in ViewSteps : Merge(q).status = "blocked" => x \in {"failed", "blocked"}
        /\ \A q \in ViewSteps : Merge(q).status = "running" => x \in {"failed", "blocked", "running"}
    BY <1>2, <2>1
  <2>6. StepOf[t] \in ViewSteps
    BY <1>3
  <2> QED  BY <2>2, <2>4, <2>5, <2>6, WorstIsShown
<1>6. Unfinished \cap S = {} =>
        /\ ShownState \in {"succeeded", "partial"}
        /\ ShownState = "succeeded" => S = {"succeeded"}
    BY <1>1, EndedRunShows
<1>7. ShownState = "succeeded" =>
        ShownStages \subseteq {"succeeded", "completed_with_errors", "idle", "skipped"}
  <2> HAVE ShownState = "succeeded"
  <2>1. S = {"succeeded"}
    <3>1. CASE Unfinished \cap S = {}
        BY <1>6, <3>1
    <3>2. CASE Unfinished \cap S # {}
        <4> HIDE DEF S
        <4>1. S = StatesOf(ViewKnown)
            BY DEF S
        <4> QED  BY <1>1, <3>2, <4>1, ShownByTasks DEF Unfinished
    <3> QED  BY <3>1, <3>2
  <2>2. \A s \in ViewSteps : Merge(s).status \in {"idle", "succeeded", "completed_with_errors"}
    BY <2>1, StepsFollowTasks
  <2> SUFFICES ASSUME NEW p \in Stages
               PROVE  StageStatus(p) \in {"succeeded", "completed_with_errors", "idle", "skipped"}
    BY DEF ShownStages
  <2>3. StageStatus(p) \in {"idle", "skipped"} \cup {Merge(s).status : s \in ViewSteps}
    BY StageShows
  <2> QED  BY <2>2, <2>3
<1>8. \A t \in ViewKnown : vstate[t] \in ViewActive => t \in Merge(StepOf[t]).queued
    BY ActiveIsListed
<1> HIDE DEF S
<1>9. ShownState \in {"failed", "blocked", "running", "queued"} =>
        /\ ShownState \in ShownStages \cup ShownOthers
        /\ FirstIn(worst, ShownStages \cup ShownOthers, "queued") = ShownState
    BY <1>5, <1>6
<1> QED  BY <1>7, <1>8, <1>9 DEF ViewsAgree, ShownStages, ShownOthers

\* RunView!ViewsAgree: the levels that read_model.py shows of a run, its state,
\* its pipeline steps and the steps that belong to none, agree while the queue
\* knows its tasks, for any tasks, steps and stages, and whatever the racing
\* handlers have written back.
THEOREM ViewsStayInAgreement == ViewSpec => []ViewsAgree
<1>1. ViewInit => ViewInv
    BY ViewInitially
<1>2. ViewInv /\ [ViewNext]_viewVars => ViewInv'
    BY ViewStep
<1>3. ViewInv => ViewsAgree
    BY ViewInvAgrees
<1> QED  BY <1>1, <1>2, <1>3, PTL DEF ViewSpec

-----------------------------------------------------------------------------
(* The configured sources                                                   *)

ConfigFields == {"row", "urls", "listing", "steps", "all"}

\* A configuration of the sources, whose listing has every site that came later.
ListsItsSites(c) ==
  /\ DOMAIN c = ConfigFields
  /\ DOMAIN c.row = Sources
  /\ \A s \in Sites \ KnownSites : c.row[s] # "absent" => s \in c.listing

Orders == ConfigOps \X Sources

ConfigInv ==
  /\ ListsItsSites(config)
  /\ DOMAIN data = Readers /\ DOMAIN spot = Readers /\ DOMAIN order = ConfigWriters
  /\ \A r \in Readers : ListsItsSites(data[r])
  /\ \A w \in ConfigWriters : spot[w] \notin {"idle", "save", "open-save"} => order[w] \in Orders

LEMMA DefaultsList == ListsItsSites(Defaults)
BY DEF Defaults, ListsItsSites, ConfigFields, Sources

LEMMA InitialList == ListsItsSites(InitialConfig)
<1>1. DOMAIN InitialConfig = ConfigFields
    BY DEF InitialConfig, Defaults, ConfigFields
<1>2. InitialConfig.row = [s \in Sources |-> IF s \in Seeds THEN "on" ELSE "absent"]
    BY DEF InitialConfig, Defaults
<1> QED  BY <1>1, <1>2, SourceAssumption DEF ListsItsSites, Sources

\* A change of the other fields keeps the listing, and so does a row that was
\* there, or that is no site's.
LEMMA RowChange ==
    ASSUME NEW c, ListsItsSites(c), NEW d, NEW s \in Sources, NEW state,
           DOMAIN d = DOMAIN c, d.row = [c.row EXCEPT ![s] = state], d.listing = c.listing,
           s \notin Sites
    PROVE  ListsItsSites(d)
BY DEF ListsItsSites, Sources

LEMMA FeedChange ==
    ASSUME NEW c, ListsItsSites(c), NEW s \in Feeds, NEW state, NEW url
    PROVE  ListsItsSites(SetFeed(c, s, state, url))
<1>1. /\ DOMAIN SetFeed(c, s, state, url) = DOMAIN c
      /\ SetFeed(c, s, state, url).row = [c.row EXCEPT ![s] = state]
      /\ SetFeed(c, s, state, url).listing = c.listing
    BY DEF SetFeed, ListsItsSites, ConfigFields
<1> HIDE DEF SetFeed
<1> QED  BY <1>1, RowChange, SourceAssumption DEF Sources

LEMMA NowChange ==
    ASSUME NEW c, ListsItsSites(c), NEW s \in Nows, NEW state
    PROVE  ListsItsSites(SetNow(c, s, state))
<1>1. /\ DOMAIN SetNow(c, s, state) = DOMAIN c
      /\ SetNow(c, s, state).row = [c.row EXCEPT ![s] = state]
      /\ SetNow(c, s, state).listing = c.listing
    BY DEF SetNow, ListsItsSites, ConfigFields
<1> QED  BY <1>1, RowChange, SourceAssumption DEF Sources

LEMMA SiteChange ==
    ASSUME NEW c, ListsItsSites(c), NEW s \in Sites, NEW state
    PROVE  ListsItsSites(SetSite(c, s, state))
<1>1. /\ DOMAIN SetSite(c, s, state) = DOMAIN c
      /\ SetSite(c, s, state).row = [c.row EXCEPT ![s] = state]
      /\ SetSite(c, s, state).listing =
            IF c.row[s] = "absent" THEN c.listing \cup {s} ELSE c.listing
    BY DEF SetSite, ListsItsSites, ConfigFields
<1> QED  BY <1>1 DEF ListsItsSites, Sources

LEMMA DropChange ==
    ASSUME NEW c, ListsItsSites(c), NEW s \in Sources
    PROVE  ListsItsSites(Drop(c, s))
<1>1. /\ DOMAIN Drop(c, s) = DOMAIN c
      /\ Drop(c, s).row = [c.row EXCEPT ![s] = "absent"]
      /\ Drop(c, s).listing = c.listing \ {s}
    BY DEF Drop, ListsItsSites, ConfigFields
<1> QED  BY <1>1 DEF ListsItsSites, Sources

LEMMA RestoreChange ==
    ASSUME NEW c, ListsItsSites(c)
    PROVE  ListsItsSites(Restore(c))
<1>1. /\ DOMAIN Restore(c) = DOMAIN c
      /\ Restore(c).row = [s \in Sources |-> IF s \in Seeds /\ c.row[s] = "absent"
                                             THEN "on" ELSE c.row[s]]
      /\ Restore(c).listing = c.listing
    BY DEF Restore, ListsItsSites, ConfigFields
<1>2. \A s \in Sites : s \notin Seeds
    BY SourceAssumption
<1> QED  BY <1>1, <1>2 DEF ListsItsSites, Sources

LEMMA StepChange ==
    ASSUME NEW c, ListsItsSites(c), NEW key, NEW s
    PROVE  ListsItsSites(PatchStep(c, key, s))
<1>1. /\ DOMAIN PatchStep(c, key, s) = DOMAIN c
      /\ PatchStep(c, key, s).row = c.row
      /\ PatchStep(c, key, s).listing = c.listing
    BY DEF PatchStep, ListsItsSites, ConfigFields
<1> QED  BY <1>1 DEF ListsItsSites

LEMMA ChangesList ==
    ASSUME NEW c, ListsItsSites(c), NEW op, NEW s \in Sources
    PROVE  ListsItsSites(Changed(c, op, s))
BY FeedChange, NowChange, SiteChange, DropChange, RestoreChange, StepChange
   DEF Changed, Sources

LEMMA ConfigInitially == SourceInit => ConfigInv
<1> SUFFICES ASSUME SourceInit PROVE ConfigInv
    OBVIOUS
<1>1. ListsItsSites(config)
  <2>1. CASE file = "missing"
    BY <2>1, DefaultsList DEF SourceInit
  <2>2. CASE file # "missing"
    <3>1. PICK listing \in SUBSET KnownSites :
            config = [InitialConfig EXCEPT !.listing = listing,
                        !.row = [s \in Sources |-> IF s \in KnownSites THEN "on" ELSE @[s]]]
      BY <2>2 DEF SourceInit
    <3>2. DOMAIN config = ConfigFields
      BY <3>1 DEF InitialConfig, Defaults, ConfigFields
    <3>3. config.row = [s \in Sources |-> IF s \in KnownSites THEN "on" ELSE InitialConfig.row[s]]
      BY <3>1 DEF InitialConfig, Defaults
    <3>4. \A s \in Sites : InitialConfig.row[s] = "absent"
      BY SourceAssumption DEF InitialConfig, Defaults, Sources
    <3> QED  BY <3>2, <3>3, <3>4 DEF ListsItsSites, Sources
  <2> QED  BY <2>1, <2>2
<1>2. /\ DOMAIN data = Readers /\ DOMAIN spot = Readers /\ DOMAIN order = ConfigWriters
      /\ \A r \in Readers : data[r] = Defaults /\ spot[r] = "idle"
    BY DEF SourceInit
<1> QED  BY <1>1, <1>2, DefaultsList DEF ConfigInv, Readers

LEMMA ConfigStep == ConfigInv /\ [SourceNext]_sourceVars => ConfigInv'
<1> SUFFICES ASSUME ConfigInv, [SourceNext]_sourceVars PROVE ConfigInv'
    OBVIOUS
<1> USE DEF ConfigInv
<1>1. CASE UNCHANGED sourceVars
    BY <1>1 DEF sourceVars, configVars
<1>2. ASSUME NEW w \in ConfigWriters, NEW op \in ConfigOps, NEW s \in Targets(op), BeginOrder(w, op, s)
      PROVE  ConfigInv'
  <2>1. s \in Sources
    BY DEF Targets, Sources
  <2>2. <<op, s>> \in Orders
    BY <2>1 DEF Orders
  <2>3. /\ order' = [order EXCEPT ![w] = <<op, s>>]
        /\ spot' = [spot EXCEPT ![w] = "load"]
        /\ UNCHANGED <<config, data>>
    BY <1>2 DEF BeginOrder
  <2> QED  BY <2>2, <2>3 DEF Readers
<1>3. ASSUME NEW r \in Readers, Load(r) PROVE ConfigInv'
  <2>1. /\ spot[r] = "load" /\ UNCHANGED <<config, order>>
        /\ data' = [data EXCEPT ![r] = IF file = "missing" THEN InitialConfig ELSE config]
        /\ \E place : spot' = [spot EXCEPT ![r] = place]
    BY <1>3 DEF Load
  <2>2. \A x \in Readers : ListsItsSites(data'[x])
    BY <2>1, InitialList
  <2>3. \A w \in ConfigWriters : spot'[w] \notin {"idle", "save", "open-save"} => order'[w] \in Orders
    BY <2>1 DEF Readers
  <2> QED  BY <2>1, <2>2, <2>3
<1>4. ASSUME NEW r \in Readers, Open(r) PROVE ConfigInv'
  <2>1. /\ spot[r] \in {"create", "migrate", "save"} /\ UNCHANGED <<data, order>>
        /\ config' = Defaults
        /\ spot' = [spot EXCEPT ![r] = Opened[spot[r]]]
    BY <1>4 DEF Open, Opened
  <2>2. spot[r] = "save" => spot'[r] = "open-save"
    BY <2>1 DEF Opened
  <2>3. \A w \in ConfigWriters : spot'[w] \notin {"idle", "save", "open-save"} => order'[w] \in Orders
    BY <2>1, <2>2 DEF Readers
  <2> QED  BY <2>1, <2>3, DefaultsList
<1>5. ASSUME NEW r \in Readers, Write(r) PROVE ConfigInv'
  <2>1. /\ config' = IF file' = "whole" THEN data[r] ELSE Defaults
        /\ spot' = [spot EXCEPT ![r] = IF @ = "open-create" THEN "load"
                                   ELSE IF @ = "open-migrate" THEN "have" ELSE "idle"]
        /\ data' = [data EXCEPT ![r] = Defaults] \/ data' = data
        /\ order' = order
    BY <1>5 DEF Write
  <2>2. ListsItsSites(config')
    BY <2>1, DefaultsList
  <2>3. \A x \in Readers : ListsItsSites(data'[x])
    BY <2>1, DefaultsList
  <2>4. \A w \in ConfigWriters : spot'[w] \notin {"idle", "save", "open-save"} => order'[w] \in Orders
    BY <2>1 DEF Readers
  <2> QED  BY <2>1, <2>2, <2>3, <2>4
<1>6. ASSUME NEW w \in ConfigWriters, Change(w) PROVE ConfigInv'
  <2>1. /\ spot[w] = "have" /\ config' = config
        /\ data' = [data EXCEPT ![w] = Changed(data[w], order[w][1], order[w][2])]
        /\ order' = [order EXCEPT ![w] = NoOrder]
        /\ spot' = [spot EXCEPT ![w] = "save"]
    BY <1>6 DEF Change, Readers
  <2>2. order[w][2] \in Sources
    BY <2>1 DEF Orders
  <2>3. ListsItsSites(Changed(data[w], order[w][1], order[w][2]))
    BY <2>2, ChangesList DEF Readers
  <2> QED  BY <2>1, <2>3 DEF Readers
<1>7. CASE RunLoads \/ PlanSteps \/ PlanSites \/ StartFeeds \/ StartNows
  <2>1. UNCHANGED <<config, data, order>> /\ \E place : spot' = [spot EXCEPT ![TheRun] = place]
    BY <1>7 DEF RunLoads, PlanSteps, PlanSites, StartFeeds, StartNows, StartTask, Has
  <2>2. \A w \in ConfigWriters : w # TheRun
    BY SourceAssumption
  <2> QED  BY <2>1, <2>2 DEF Readers
<1>8. CASE (\E s \in Sources : FetchFeed(s) \/ FetchNow(s)) \/ EndTask
    BY <1>8 DEF FetchFeed, FetchNow, EndTask, configVars
<1> QED  BY <1>1, <1>2, <1>3, <1>4, <1>5, <1>6, <1>7, <1>8 DEF SourceNext

LEMMA ConfigIngested == ConfigInv => ActiveIsIngested
<1> SUFFICES ASSUME ConfigInv PROVE
        /\ ActiveSources(config) = EnabledFeeds(config) \cup EnabledNows(config)
                              \cup PlannedSites(config, config.listing)
        /\ "site_lists" \in config.steps =>
              On(config, Sites) \ ActiveSources(config) \subseteq KnownSites
    BY DEF ActiveIsIngested
<1>1. \A s \in Sources : s \in ActiveSources(config) <=>
        s \in EnabledFeeds(config) \cup EnabledNows(config)
                \cup PlannedSites(config, config.listing)
    BY SourceAssumption
    DEF ActiveSources, EnabledFeeds, EnabledNows, PlannedSites, On, Listed, Sources
<1>2. ActiveSources(config) \subseteq Sources
    BY DEF ActiveSources
<1>3. EnabledFeeds(config) \cup EnabledNows(config)
        \cup PlannedSites(config, config.listing) \subseteq Sources
    BY DEF EnabledFeeds, EnabledNows, PlannedSites, On, Sources
<1>4. "site_lists" \in config.steps => On(config, Sites) \ ActiveSources(config) \subseteq KnownSites
    BY SourceAssumption DEF ConfigInv, ListsItsSites, On, ActiveSources, Listed, Sources
<1> QED  BY <1>1, <1>2, <1>3, <1>4

\* SourceIngest!ActiveIsIngested: what source_diagnostics calls active is what a
\* run fetches, and no site that was added later is hidden by the listing, however
\* the writes of config.json interleave.
THEOREM ActiveStaysIngested == SourceSpec => []ActiveIsIngested
<1>1. SourceInit => ConfigInv
    BY ConfigInitially
<1>2. ConfigInv /\ [SourceNext]_sourceVars => ConfigInv'
    BY ConfigStep
<1>3. ConfigInv => ActiveIsIngested
    BY ConfigIngested
<1> QED  BY <1>1, <1>2, <1>3, PTL DEF SourceSpec

-----------------------------------------------------------------------------
(* The ingest of a run                                                      *)

\* A source that has been active so far is of a step that was planned, and of a
\* site that the plan lists.
SeenIsPlanned ==
  runAt # "plan" =>
    \A s \in noticed : /\ s \in Feeds => "rss" \in plan.steps
                       /\ s \in Nows => "newsnow" \in plan.steps
                       /\ s \in Sites => plan.listing = {} \/ s \in plan.listing

\* What each step has done: the sites have tasks, and the feeds and newsnow
\* sources are noted or still to do.
StepsDone ==
  /\ runAt = "rss" => \A s \in noticed \cap Sites : account[s] # "none"
  /\ runAt = "fetch-rss" => /\ \A s \in noticed \cap Sites : account[s] # "none"
                            /\ \A s \in noticed \cap Feeds : account[s] # "none" \/ s \in todo
  /\ runAt = "newsnow" => \A s \in noticed \cap (Sites \cup Feeds) : account[s] # "none"
  /\ runAt = "fetch-newsnow" => /\ \A s \in noticed \cap (Sites \cup Feeds) : account[s] # "none"
                                /\ \A s \in noticed \cap Nows : account[s] # "none" \/ s \in todo
  /\ runAt = "done" => \A s \in noticed : account[s] # "none"

IngestInv ==
  /\ runAt \in {"plan", "sites", "rss", "fetch-rss", "newsnow", "fetch-newsnow", "done"}
  /\ noticed \subseteq Sources
  /\ DOMAIN account = Sources
  /\ DOMAIN plan = {"steps", "listing", "sites"}
  /\ SeenIsPlanned
  /\ StepsDone

LEMMA IngestInitially == SourceInit => IngestInv
BY DEF SourceInit, IngestInv, SeenIsPlanned, StepsDone

\* What a step does to the run: it keeps seen, and notes or keeps each source.
LEMMA NoteStep ==
    ASSUME IngestInv, NEW s \in Sources, NEW outcome, outcome # "none",
           account' = [account EXCEPT ![s] = outcome], todo' = todo \ {s},
           UNCHANGED <<runAt, plan, noticed>>
    PROVE  IngestInv'
BY DEF IngestInv, SeenIsPlanned, StepsDone

LEMMA IngestStep == IngestInv /\ [SourceNext]_sourceVars => IngestInv'
<1> SUFFICES ASSUME IngestInv, [SourceNext]_sourceVars PROVE IngestInv'
    OBVIOUS
<1> USE DEF IngestInv
<1>1. CASE \/ UNCHANGED sourceVars \/ RunLoads
           \/ \E w \in ConfigWriters, op \in ConfigOps : \E s \in Targets(op) : BeginOrder(w, op, s)
           \/ \E r \in Readers : Load(r) \/ Open(r) \/ Write(r)
           \/ \E w \in ConfigWriters : Change(w)
  <2>1. UNCHANGED ingestVars
    BY <1>1 DEF sourceVars, RunLoads, BeginOrder, Load, Open, Write, Change
  <2> QED  BY <2>1 DEF ingestVars, SeenIsPlanned, StepsDone
<1>2. CASE PlanSteps
  <2> DEFINE c == data[TheRun]
  <2>1. /\ runAt = "plan" /\ UNCHANGED <<account, todo>>
        /\ noticed' = noticed \cap ActiveSources(c)
        /\ plan' = [plan EXCEPT !.steps = c.steps, !.listing = c.listing]
        /\ runAt' = IF "site_lists" \in c.steps THEN "sites" ELSE "rss"
    BY <1>2 DEF PlanSteps, Has
  <2>2. plan'.steps = c.steps /\ plan'.listing = c.listing
    BY <2>1
  <2>3. \A s \in noticed' : /\ s \in Feeds => "rss" \in c.steps
                            /\ s \in Nows => "newsnow" \in c.steps
                            /\ s \in Sites => "site_lists" \in c.steps /\ Listed(c, s)
    BY <2>1 DEF ActiveSources
  <2> HIDE DEF c
  <2>4. SeenIsPlanned'
    BY <2>2, <2>3 DEF SeenIsPlanned, Listed
  <2>5. StepsDone'
    BY <2>1, <2>3 DEF StepsDone
  <2> QED  BY <2>1, <2>4, <2>5
<1>3. CASE PlanSites
  <2> DEFINE c == data[TheRun]
             sites == PlannedSites(c, plan.listing)
  <2>1. /\ runAt = "sites" /\ runAt' = "rss" /\ todo' = todo
        /\ noticed' = noticed \cap ActiveSources(c)
        /\ plan' = [plan EXCEPT !.sites = sites]
        /\ account' = [s \in Sources |-> IF s \in sites THEN "task" ELSE account[s]]
    BY <1>3 DEF PlanSites, Has
  <2>2. plan'.steps = plan.steps /\ plan'.listing = plan.listing /\ DOMAIN plan' = DOMAIN plan
    BY <2>1
  <2>3. \A s \in noticed' \cap Sites : s \in sites
    BY <2>1 DEF SeenIsPlanned, PlannedSites, ActiveSources, Listed, On
  <2> HIDE DEF c, sites
  <2>4. SeenIsPlanned'
    BY <2>1, <2>2 DEF SeenIsPlanned
  <2>5. StepsDone'
    BY <2>1, <2>3 DEF StepsDone
  <2> QED  BY <2>1, <2>2, <2>4, <2>5
<1>4. CASE StartFeeds
  <2> DEFINE S == EnabledFeeds(data[TheRun])
  <2>1. /\ runAt = "rss" /\ UNCHANGED <<plan, account>>
        /\ noticed' = noticed \cap ActiveSources(data[TheRun])
        /\ todo' = IF "rss" \in plan.steps THEN S ELSE {}
        /\ runAt' = IF "rss" \in plan.steps THEN "fetch-rss" ELSE "newsnow"
    BY <1>4 DEF StartFeeds, StartTask, Has
  <2>2. \A s \in noticed' \cap Feeds : s \in S /\ "rss" \in plan.steps
    BY <2>1 DEF SeenIsPlanned, EnabledFeeds, ActiveSources, On
  <2> HIDE DEF S
  <2>3. SeenIsPlanned' /\ StepsDone'
    BY <2>1, <2>2 DEF SeenIsPlanned, StepsDone
  <2> QED  BY <2>1, <2>3
<1>5. CASE StartNows
  <2> DEFINE S == EnabledNows(data[TheRun])
  <2>1. /\ runAt = "newsnow" /\ UNCHANGED <<plan, account>>
        /\ noticed' = noticed \cap ActiveSources(data[TheRun])
        /\ todo' = IF "newsnow" \in plan.steps THEN S ELSE {}
        /\ runAt' = IF "newsnow" \in plan.steps THEN "fetch-newsnow" ELSE "done"
    BY <1>5 DEF StartNows, StartTask, Has
  <2>2. \A s \in noticed' \cap Nows : s \in S /\ "newsnow" \in plan.steps
    BY <2>1 DEF SeenIsPlanned, EnabledNows, ActiveSources, On
  <2> HIDE DEF S
  <2>3. SeenIsPlanned' /\ StepsDone'
    BY <2>1, <2>2 DEF SeenIsPlanned, StepsDone, Sources
  <2> QED  BY <2>1, <2>3
<1>6. ASSUME NEW s \in Sources, FetchFeed(s) PROVE IngestInv'
  <2>1. PICK outcome \in {"items", "error"} : account' = [account EXCEPT ![s] = outcome]
    BY <1>6 DEF FetchFeed, Noted
  <2>2. todo' = todo \ {s} /\ UNCHANGED <<runAt, plan, noticed>>
    BY <1>6 DEF FetchFeed
  <2> QED  BY <2>1, <2>2, NoteStep
<1>7. ASSUME NEW s \in Sources, FetchNow(s) PROVE IngestInv'
  <2>1. CASE \E outcome \in {"items", "cached", "error"} :
                /\ account' = [account EXCEPT ![s] = outcome]
                /\ todo' = todo \ {s} /\ UNCHANGED <<runAt, plan, noticed>>
    BY <2>1, NoteStep
  <2>2. CASE /\ runAt = "fetch-newsnow" /\ runAt' = "done"
             /\ account' = [n \in Sources |-> IF n \in Nows THEN "failed" ELSE account[n]]
             /\ UNCHANGED <<plan, noticed>>
    BY <2>2 DEF SeenIsPlanned, StepsDone, Sources
  <2> QED  BY <1>7, <2>1, <2>2 DEF FetchNow, Noted
<1>8. CASE EndTask
    BY <1>8 DEF EndTask, SeenIsPlanned, StepsDone, Sources
<1> QED  BY <1>1, <1>2, <1>3, <1>4, <1>5, <1>6, <1>7, <1>8 DEF SourceNext

\* SourceIngest!SourcesAccounted: no source that stays active is passed over by a
\* run, whoever changes the configuration between its steps.
THEOREM SourcesStayAccounted == SourceSpec => []SourcesAccounted
<1>1. SourceInit => IngestInv
    BY IngestInitially
<1>2. IngestInv /\ [SourceNext]_sourceVars => IngestInv'
    BY IngestStep
<1>3. IngestInv => SourcesAccounted
    BY DEF IngestInv, StepsDone, SourcesAccounted
<1> QED  BY <1>1, <1>2, <1>3, PTL DEF SourceSpec
=============================================================================
