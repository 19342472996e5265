----------------------------- MODULE ModelCalls -----------------------------
(***************************************************************************)
(* Calls of the language model and of the embedding service, and the       *)
(* caches in front of them: service/classify/llm_client.py, llm_transport  *)
(* and retriever.py, repository/llm_cache.py and vector_cache.py.          *)
(*                                                                         *)
(* Callers are threads.  A chat call looks into the cache file, asks the   *)
(* service with retries, parses and stores; an embed call looks into the   *)
(* memory of its retriever and then into the file, asks once, and stores   *)
(* in both.  The locks are held for one read or one write: two callers of  *)
(* one prompt may both miss and both ask.  An answer is named by the       *)
(* caller and the request that brought it, for the service need not say    *)
(* the same thing twice.                                                   *)
(***************************************************************************)
EXTENDS Integers, FiniteSets, FiniteSetsExt

CONSTANTS
  ChatCallers, EmbedCallers,  \* threads; the embed callers share a retriever
  Prompts, Texts,             \* what the two kinds ask about
  RetryAfter,                 \* seconds a throttling service asks for, when it does
  CacheOn,                    \* whether cache_path is set
  MaxRetries,                 \* config.max_retries, may be 0
  CallLimit                   \* bound: calls of a caller

ASSUME CallsAssumption ==
  /\ ChatCallers \cap EmbedCallers = {} /\ Prompts \cap Texts = {}
  /\ Prompts # {} /\ Texts # {}
  /\ RetryAfter \in Nat
  /\ CacheOn \in BOOLEAN /\ MaxRetries \in Nat /\ CallLimit \in Nat

VARIABLES
  cacheFile,  \* prompt or text -> the answer in the sqlite file of its kind
  memory,     \* text -> the vector in the retriever's memory
  call        \* caller -> the call it is making

callVars == <<cacheFile, memory, call>>

Callers == ChatCallers \cup EmbedCallers

Asks(c) == IF c \in ChatCallers THEN Prompts ELSE Texts

Uncached == [by |-> "", posts |-> 0, parses |-> TRUE]

AttemptLimit == Max({1, MaxRetries})

\* What a request comes to.  A stream may carry an answer, prose that is no JSON
\* object, or nothing; an error status or an undecodable stream is asked again
\* without a stream.
Replies == {"answer", "prose", "empty", "status", "garbled", "lost"}
PlainReplies == {"answer", "prose", "throttled", "told", "lost"}

\* Seconds before the next attempt.  The exponent needs no more than 6: the 90
\* seconds are passed by then.
RetryDelay(fault, attempt) ==
  LET base == IF fault = "throttled" THEN 8 ELSE 2
  IN Min({90, IF fault = "told" THEN RetryAfter ELSE base * 2 ^ Min({6, attempt - 1})})

CallsInit ==
  /\ cacheFile = [p \in Prompts \cup Texts |-> Uncached]
  /\ memory = [t \in Texts |-> Uncached]
  /\ call = [c \in Callers |-> [at |-> "idle", prompt |-> CHOOSE p \in Asks(c) : TRUE,
                                attempt |-> 1, posts |-> 0, waited |-> 0, calls |-> 0,
                                answer |-> Uncached]]

Move(c, where) == call' = [call EXCEPT ![c].at = where]

StartCall(c, p) ==
  /\ call[c].at \in {"idle", "done", "failed"} /\ call[c].calls < CallLimit
  /\ call' = [call EXCEPT ![c] = [at |-> IF c \in ChatCallers THEN "look_file" ELSE "look_memory",
                                  prompt |-> p, attempt |-> 1, posts |-> 0, waited |-> 0,
                                  calls |-> call[c].calls + 1, answer |-> Uncached]]
  /\ UNCHANGED <<cacheFile, memory>>

\* What a cache holds is the answer, or the call goes on without.
Found(c, found, otherwise) ==
  call' = [call EXCEPT ![c].at = IF found = Uncached THEN otherwise ELSE "done",
                       ![c].answer = found]

LookInMemory(c) ==
  /\ call[c].at = "look_memory"
  /\ Found(c, memory[call[c].prompt], "look_file")
  /\ UNCHANGED <<cacheFile, memory>>

\* The embed call copies a vector of the file to the memory.  What is in no cache
\* is asked for, or the call fails because no service is configured for it: no
\* address or no key.
LookInFile(c) ==
  LET p == call[c].prompt
      found == cacheFile[p]
  IN /\ call[c].at = "look_file"
     /\ \E next \in {"ask", "failed"} : Found(c, found, next)
     /\ memory' = IF c \in EmbedCallers /\ found # Uncached
                  THEN [memory EXCEPT ![p] = found] ELSE memory
     /\ UNCHANGED cacheFile

Answered(c, reply, next) ==
  call' = [call EXCEPT ![c].at = next, ![c].posts = @ + 1,
                       ![c].answer = [by |-> c, posts |-> call[c].posts + 1,
                                      parses |-> reply = "answer"]]

\* A request without an answer.
Unanswered(c, next) == call' = [call EXCEPT ![c].at = next, ![c].posts = @ + 1]

AskAgain(c, delay) ==
  call' = [call EXCEPT ![c].at = "ask", ![c].posts = @ + 1, ![c].attempt = @ + 1,
                       ![c].waited = @ + delay]

\* A fault for the mutants: one more attempt.
AttemptFailsLate(c, fault) ==
  IF call[c].attempt > AttemptLimit THEN Unanswered(c, "failed")
                                    ELSE AskAgain(c, RetryDelay(fault, call[c].attempt))

\* An error of one attempt: the next one follows after a delay, the last one fails
\* the call.
AttemptFails(c, fault) ==
  IF call[c].attempt >= AttemptLimit THEN Unanswered(c, "failed")
                                     ELSE AskAgain(c, RetryDelay(fault, call[c].attempt))

Ask(c, reply) ==
  /\ c \in ChatCallers /\ call[c].at = "ask"
  /\ IF reply \in {"answer", "prose"} THEN Answered(c, reply, "parse")
     ELSE IF reply \in {"status", "garbled"}
     THEN Unanswered(c, "ask_plain")
     ELSE AttemptFails(c, reply)
  /\ UNCHANGED <<cacheFile, memory>>

\* The request without a stream; an empty content is left to the parser.
AskPlain(c, reply) ==
  /\ call[c].at = "ask_plain"
  /\ IF reply \in {"answer", "prose"} THEN Answered(c, reply, "parse")
                                      ELSE AttemptFails(c, reply)
  /\ UNCHANGED <<cacheFile, memory>>

\* What parse_json_content refuses fails the call at once: it is not asked again.
Parse(c) ==
  /\ call[c].at = "parse"
  /\ Move(c, IF call[c].answer.parses THEN "store" ELSE "failed")
  /\ UNCHANGED <<cacheFile, memory>>

\* The embedding is asked for once, and goes to the memory first.
AskVector(c, reply) ==
  /\ c \in EmbedCallers /\ call[c].at = "ask"
  /\ IF reply = "answer" THEN Answered(c, reply, "store_memory")
                         ELSE Unanswered(c, "failed")
  /\ UNCHANGED <<cacheFile, memory>>

StoreInMemory(c) ==
  /\ call[c].at = "store_memory" /\ Move(c, "store")
  /\ memory' = [memory EXCEPT ![call[c].prompt] = call[c].answer]
  /\ UNCHANGED cacheFile

StoreInFile(c) ==
  /\ call[c].at = "store" /\ Move(c, "done")
  /\ cacheFile' = IF CacheOn THEN [cacheFile EXCEPT ![call[c].prompt] = call[c].answer]
                             ELSE cacheFile
  /\ UNCHANGED memory

CallsNext == \E c \in Callers :
  \/ \E p \in Asks(c) : StartCall(c, p)
  \/ LookInMemory(c) \/ LookInFile(c)
  \/ \E reply \in Replies : Ask(c, reply)
  \/ \E reply \in PlainReplies : AskPlain(c, reply)
  \/ Parse(c)
  \/ \E reply \in {"answer", "lost"} : AskVector(c, reply)
  \/ StoreInMemory(c) \/ StoreInFile(c)

CallsSpec == CallsInit /\ [][CallsNext]_callVars

-----------------------------------------------------------------------------

\* What a call leaves behind, whoever else asks the same at the same time.  Only
\* an answer that parsed is ever stored, so no later run is served a broken one;
\* an answer that a chat returned is in the file, and a vector in the memory is in
\* the file or about to be; a failed call had used up its attempts, was given an
\* answer that does not parse, or had no service to ask and asked none; and a call
\* asks at most twice per attempt and waits at most 90 seconds between two
\* (llm_client.py complete_json, llm_transport.py request_json_content,
\* retriever.py _embed_text).
CallsAreAccounted ==
  /\ \A p \in Prompts \cup Texts : cacheFile[p].parses
  /\ CacheOn => /\ \A c \in ChatCallers : call[c].at = "done" => cacheFile[call[c].prompt] # Uncached
                /\ \A t \in Texts : memory[t] # Uncached =>
                     \/ cacheFile[t] # Uncached
                     \/ \E c \in EmbedCallers : call[c].at = "store" /\ call[c].prompt = t
  /\ \A c \in ChatCallers :
       /\ call[c].at = "failed" => \/ call[c].attempt = AttemptLimit
                                   \/ ~call[c].answer.parses
                                   \/ call[c].posts = 0
       /\ call[c].posts <= 2 * call[c].attempt
       /\ call[c].waited <= 90 * call[c].attempt - 90
=============================================================================
