------------------------------ MODULE CacheProofs ------------------------------
(***************************************************************************)
(* What is answered from a cache was given for the question asked, and is  *)
(* young enough: the RPC client's directory of answers, for any number of  *)
(* calls, paths and answers, and the dictionaries of the API, for any      *)
(* number of threads, questions and any TTL, over every interleaving of    *)
(* their looks at it.                                                      *)
(***************************************************************************)
EXTENDS RpcClient, ApiCache, FiniteSetTheorems, TLAPS

-----------------------------------------------------------------------------
(* The RPC client: an answer was given by the server for its path, and a   *)
(* call gives up after RETRY_ATTEMPTS requests.                            *)

UnderWay == {"send", "open", "fill"}

CallType ==
  [at : {"idle", "done"} \cup UnderWay, path : Paths \cup {"none"}, attempt : 0..(RetryAttempts - 1),
   got : Answers \cup {"none"},
   why : {"none", "answer", "cache", "torn", "offline", "tired", "refused"}]

\* The variables' types.
ClientTypes ==
  /\ files \in [Paths -> Answers \cup {"none", "torn"}]
  /\ given \in [Paths -> SUBSET Answers]
  /\ calls \in [Clients -> CallType]

\* A file holds nothing, half of something, or what the server gave.
FilesGiven == \A p \in Paths : files[p] \in Answers => files[p] \in given[p]

\* A call under way has a path and no reason yet to end; what it got was given
\* for its path, and what it writes it got.
CallSound(c) ==
  /\ calls[c].at \in UnderWay => calls[c].path \in Paths /\ calls[c].why = "none"
  /\ calls[c].at \in {"open", "fill"} => calls[c].got \in Answers
  /\ calls[c].got # "none" => calls[c].path \in Paths /\ calls[c].got \in given[calls[c].path]
  /\ calls[c].why = "tired" => calls[c].attempt = RetryAttempts - 1

ClientInv == ClientTypes /\ FilesGiven /\ \A c \in Clients : CallSound(c)

-----------------------------------------------------------------------------

\* No answer is one of the marks the model uses.
LEMMA AnswersAreNoMarks == "none" \notin Answers /\ "torn" \notin Answers
  BY ClientAssumption

\* Nothing is cached and nobody calls.
LEMMA ClientStarts == ClientInit => ClientInv
  <1>1. 0 \in 0..(RetryAttempts - 1)
    BY ClientAssumption
  <1>2. SUFFICES ASSUME ClientInit PROVE ClientInv
    OBVIOUS
  <1>3. ClientTypes
    BY <1>1, <1>2 DEF ClientInit, ClientTypes, CallType, NoCall, Call
  <1>4. FilesGiven
    BY <1>2, AnswersAreNoMarks DEF ClientInit, FilesGiven
  <1>5. \A c \in Clients : CallSound(c)
    BY <1>2 DEF ClientInit, CallSound, NoCall, Call, UnderWay
  <1> QED
    BY <1>3, <1>4, <1>5 DEF ClientInv

\* A call that changes only itself, soundly and into its type, keeps the rest.
LEMMA OneCall ==
  ASSUME ClientInv, NEW c \in Clients, NEW r \in CallType,
         calls' = [calls EXCEPT ![c] = r],
         given' \in [Paths -> SUBSET Answers],
         \A p \in Paths : given[p] \subseteq given'[p],
         CallSound(c)'
  PROVE  calls' \in [Clients -> CallType] /\ \A d \in Clients : CallSound(d)'
  <1>1. calls' \in [Clients -> CallType]
    BY DEF ClientInv, ClientTypes
  <1>2. ASSUME NEW d \in Clients, d # c PROVE CallSound(d)'
    <2>1. CallSound(d) /\ calls'[d] = calls[d]
      BY <1>2 DEF ClientInv, ClientTypes
    <2> QED
      BY <2>1 DEF CallSound
  <1> QED
    BY <1>1, <1>2

\* So does a call of which nothing is looked at but its sound record.
LEMMA OneCallKeeps ==
  ASSUME ClientInv, NEW c \in Clients, NEW r \in CallType,
         calls' = [calls EXCEPT ![c] = r],
         given' \in [Paths -> SUBSET Answers],
         \A p \in Paths : given[p] \subseteq given'[p],
         files' \in [Paths -> Answers \cup {"none", "torn"}],
         FilesGiven', CallSound(c)'
  PROVE  ClientInv'
  BY OneCall DEF ClientInv, ClientTypes

\* The call starts: from the cache, or with its first request.
LEMMA AskKeeps ==
  ASSUME ClientInv, NEW c \in Clients, NEW p \in Paths, NEW offline \in BOOLEAN,
         Ask(c, p, offline)
  PROVE  ClientInv'
  <1>1. /\ files \in [Paths -> Answers \cup {"none", "torn"}] /\ files' = files
        /\ given \in [Paths -> SUBSET Answers] /\ given' = given
        /\ calls \in [Clients -> CallType]
        /\ FilesGiven
    BY DEF ClientInv, ClientTypes, Ask
  <1>2. FilesGiven'
    BY <1>1 DEF FilesGiven
  <1>3. 0 \in 0..(RetryAttempts - 1)
    BY ClientAssumption
  <1>4. CASE Serves(p) /\ files[p] # "torn"
    <2> DEFINE r == Call("done", p, 0, files[p], "cache")
    <2>1. files[p] \in Answers /\ files[p] \in given[p]
      BY <1>1, <1>4 DEF Serves, FilesGiven
    <2>2. r \in CallType
      BY <2>1, <1>3 DEF CallType, Call
    <2>3. calls' = [calls EXCEPT ![c] = r]
      BY <1>4 DEF Ask
    <2>4. CallSound(c)'
      BY <1>1, <2>1, <2>3 DEF CallSound, UnderWay, Call
    <2> QED
      BY <1>1, <1>2, <2>2, <2>3, <2>4, OneCallKeeps
  <1>5. CASE ~(Serves(p) /\ files[p] # "torn")
    <2>1. PICK at \in {"done", "send"}, why \in {"none", "torn", "offline"} :
            /\ at = "send" => why = "none"
            /\ calls' = [calls EXCEPT ![c] = Call(at, p, 0, "none", why)]
      BY <1>5 DEF Ask
    <2> DEFINE r == Call(at, p, 0, "none", why)
    <2>2. r \in CallType
      BY <1>3 DEF CallType, UnderWay, Call
    <2>3. CallSound(c)'
      BY <1>1, <2>1 DEF CallSound, UnderWay, Call
    <2> QED
      BY <1>1, <1>2, <2>1, <2>2, <2>3, OneCallKeeps
  <1> QED
    BY <1>4, <1>5

\* One request: another try, an error, or an answer that is on record as given.
LEMMA RequestKeeps ==
  ASSUME ClientInv, NEW c \in Clients, Request(c)
  PROVE  ClientInv'
  <1>1. /\ files \in [Paths -> Answers \cup {"none", "torn"}] /\ files' = files
        /\ given \in [Paths -> SUBSET Answers]
        /\ calls \in [Clients -> CallType]
        /\ FilesGiven /\ CallSound(c)
        /\ calls[c] \in CallType /\ calls[c].at = "send"
    BY DEF ClientInv, ClientTypes, Request
  <1>2. calls[c].path \in Paths /\ calls[c].why = "none"
    BY <1>1 DEF CallSound, UnderWay
  <1>3. RetryAttempts \in Nat /\ calls[c].attempt \in 0..(RetryAttempts - 1)
    BY <1>1, ClientAssumption DEF CallType
  <1>4. CASE given' = given /\ TryAgain(c) /\ ~NoneLeft(calls[c].attempt)
    <2> DEFINE r == Call("send", calls[c].path, calls[c].attempt + 1, calls[c].got, "none")
    <2>1. calls[c].attempt + 1 \in 0..(RetryAttempts - 1)
      BY <1>3, <1>4 DEF NoneLeft
    <2>2. r \in CallType
      BY <1>1, <2>1 DEF CallType, UnderWay, Call
    <2>3. calls' = [calls EXCEPT ![c] = r]
      BY <1>1, <1>2, <1>4 DEF TryAgain, CallType, Call
    <2>4. CallSound(c)'
      BY <1>1, <1>2, <1>4, <2>3 DEF CallSound, UnderWay, Call
    <2> QED
      BY <1>1, <1>4, <2>2, <2>3, <2>4, OneCallKeeps DEF FilesGiven
  <1>5. ASSUME NEW why \in {"tired", "refused"}, given' = given, Raises(c, why),
               why = "tired" => NoneLeft(calls[c].attempt)
        PROVE  ClientInv'
    <2> DEFINE r == Call("done", calls[c].path, calls[c].attempt, "none", why)
    <2>1. r \in CallType
      BY <1>1 DEF CallType, Call
    <2>2. calls' = [calls EXCEPT ![c] = r]
      BY <1>5 DEF Raises
    <2>3. CallSound(c)'
      BY <1>1, <1>5, <2>2 DEF CallSound, UnderWay, Call, NoneLeft
    <2> QED
      BY <1>1, <1>5, <2>1, <2>2, <2>3, OneCallKeeps DEF FilesGiven
  <1>6. ASSUME NEW a \in Answers,
               given' = [given EXCEPT ![calls[c].path] = @ \cup {a}],
               calls' = [calls EXCEPT ![c] = Call("open", @.path, @.attempt, a, "none")]
        PROVE  ClientInv'
    <2> DEFINE r == Call("open", calls[c].path, calls[c].attempt, a, "none")
    <2>1. r \in CallType
      BY <1>1 DEF CallType, UnderWay, Call
    <2>2. calls' = [calls EXCEPT ![c] = r]
      BY <1>6
    <2>3. /\ given' \in [Paths -> SUBSET Answers]
          /\ \A p \in Paths : given[p] \subseteq given'[p]
          /\ a \in given'[calls[c].path]
      BY <1>1, <1>2, <1>6
    <2>4. CallSound(c)'
      BY <1>1, <1>2, <2>2, <2>3 DEF CallSound, UnderWay, Call
    <2>5. FilesGiven'
      BY <1>1, <2>3 DEF FilesGiven
    <2> QED
      BY <1>1, <2>1, <2>2, <2>3, <2>4, <2>5, OneCallKeeps
  <1> QED
    BY <1>4, <1>5, <1>6 DEF Request, TryAgain, Refused

\* The answer is on its way to the file, or the file cannot be opened.
LEMMA OpenFileKeeps ==
  ASSUME ClientInv, NEW c \in Clients, OpenFile(c)
  PROVE  ClientInv'
  <1>1. /\ files \in [Paths -> Answers \cup {"none", "torn"}]
        /\ given \in [Paths -> SUBSET Answers] /\ given' = given
        /\ calls \in [Clients -> CallType]
        /\ FilesGiven /\ CallSound(c)
        /\ calls[c] \in CallType /\ calls[c].at = "open"
    BY DEF ClientInv, ClientTypes, OpenFile
  <1>2. /\ calls[c].path \in Paths /\ calls[c].why = "none"
        /\ calls[c].got \in Answers /\ calls[c].got \in given[calls[c].path]
    BY <1>1, AnswersAreNoMarks DEF CallSound, UnderWay
  <1>3. CASE files' = [files EXCEPT ![calls[c].path] = "torn"]
             /\ calls' = [calls EXCEPT ![c] = Call("fill", @.path, @.attempt, @.got, "none")]
    <2> DEFINE r == Call("fill", calls[c].path, calls[c].attempt, calls[c].got, "none")
    <2>1. r \in CallType
      BY <1>1 DEF CallType, UnderWay, Call
    <2>2. calls' = [calls EXCEPT ![c] = r]
      BY <1>1, <1>2, <1>3 DEF CallType, Call
    <2>3. CallSound(c)'
      BY <1>1, <1>2, <2>2 DEF CallSound, UnderWay, Call
    <2>4. FilesGiven' /\ files' \in [Paths -> Answers \cup {"none", "torn"}]
      BY <1>1, <1>2, <1>3, AnswersAreNoMarks DEF FilesGiven
    <2> QED
      BY <1>1, <2>1, <2>2, <2>3, <2>4, OneCallKeeps
  <1>4. CASE files' = files /\ Returns200(c, calls[c].got)
    <2> DEFINE r == Call("done", calls[c].path, calls[c].attempt, calls[c].got, "answer")
    <2>1. r \in CallType
      BY <1>1 DEF CallType, Call
    <2>2. calls' = [calls EXCEPT ![c] = r]
      BY <1>4 DEF Returns200
    <2>3. CallSound(c)'
      BY <1>1, <1>2, <2>2 DEF CallSound, UnderWay, Call
    <2> QED
      BY <1>1, <1>4, <2>1, <2>2, <2>3, OneCallKeeps DEF FilesGiven
  <1> QED
    BY <1>3, <1>4 DEF OpenFile

\* The file holds what the call got, or half of it; the call returns either way.
LEMMA FillFileKeeps ==
  ASSUME ClientInv, NEW c \in Clients, FillFile(c)
  PROVE  ClientInv'
  <1>1. /\ files \in [Paths -> Answers \cup {"none", "torn"}]
        /\ given \in [Paths -> SUBSET Answers] /\ given' = given
        /\ calls \in [Clients -> CallType]
        /\ FilesGiven /\ CallSound(c)
        /\ calls[c] \in CallType /\ calls[c].at = "fill"
    BY DEF ClientInv, ClientTypes, FillFile
  <1>2. /\ calls[c].path \in Paths /\ calls[c].why = "none"
        /\ calls[c].got \in Answers /\ calls[c].got \in given[calls[c].path]
    BY <1>1, AnswersAreNoMarks DEF CallSound, UnderWay
  <1> DEFINE r == Call("done", calls[c].path, calls[c].attempt, calls[c].got, "answer")
  <1>3. r \in CallType
    BY <1>1 DEF CallType, Call
  <1>4. calls' = [calls EXCEPT ![c] = r]
    BY DEF FillFile, Returns200
  <1>5. CallSound(c)'
    BY <1>1, <1>2, <1>4 DEF CallSound, UnderWay, Call
  <1>6. FilesGiven' /\ files' \in [Paths -> Answers \cup {"none", "torn"}]
    BY <1>1, <1>2, AnswersAreNoMarks DEF FilesGiven, FillFile
  <1> QED
    BY <1>1, <1>3, <1>4, <1>5, <1>6, OneCallKeeps

\* A call that is killed leaves its file as it is.
LEMMA KilledKeeps ==
  ASSUME ClientInv, NEW c \in Clients, Killed(c)
  PROVE  ClientInv'
  <1>1. /\ files \in [Paths -> Answers \cup {"none", "torn"}] /\ files' = files
        /\ given \in [Paths -> SUBSET Answers] /\ given' = given
        /\ calls \in [Clients -> CallType] /\ FilesGiven
        /\ calls' = [calls EXCEPT ![c] = NoCall]
    BY DEF ClientInv, ClientTypes, Killed
  <1>2. NoCall \in CallType
    BY ClientAssumption DEF NoCall, Call, CallType
  <1>3. CallSound(c)'
    BY <1>1 DEF CallSound, UnderWay, NoCall, Call
  <1> QED
    BY <1>1, <1>2, <1>3, OneCallKeeps DEF FilesGiven

-----------------------------------------------------------------------------

\* Every step of every call keeps the invariant.
LEMMA ClientInvKept == ClientInv /\ [ClientNext]_clientVars => ClientInv'
  <1>1. ASSUME ClientInv, ClientNext PROVE ClientInv'
    BY <1>1, AskKeeps, RequestKeeps, OpenFileKeeps, FillFileKeeps, KilledKeeps DEF ClientNext
  <1>2. ASSUME ClientInv, UNCHANGED clientVars PROVE ClientInv'
    BY <1>2 DEF clientVars, ClientInv, ClientTypes, FilesGiven, CallSound
  <1> QED
    BY <1>1, <1>2

\* The invariant holds for any number of calls that share the directory.
THEOREM ClientInvHolds == ClientSpec => []ClientInv
  <1> QED
    BY ClientStarts, ClientInvKept, PTL DEF ClientSpec

\* What a call returns the server gave with status 200 for the path asked
\* (client.py _get), whoever wrote the file it was read from.
THEOREM OnlyGivenAnswers == ClientSpec => []ReturnsWhatWasGiven
  <1>1. ClientInv => ReturnsWhatWasGiven
    BY DEF ClientInv, CallSound, ReturnsWhatWasGiven
  <1> QED
    BY <1>1, ClientInvHolds, PTL

\* A call sends at most RETRY_ATTEMPTS requests, and gives up after no fewer
\* (client.py RETRY_ATTEMPTS).
THEOREM GivesUpAfterAttempts == ClientSpec => []GivesUpInTime
  <1>1. ASSUME ClientInv PROVE GivesUpInTime
    <2>1. SUFFICES ASSUME NEW c \in Clients
                   PROVE  /\ calls[c].attempt < RetryAttempts
                          /\ calls[c].why = "tired" => calls[c].attempt = RetryAttempts - 1
      BY DEF GivesUpInTime
    <2>2. calls[c].attempt \in 0..(RetryAttempts - 1) /\ CallSound(c)
      BY <1>1 DEF ClientInv, ClientTypes, CallType
    <2> QED
      BY <2>2, ClientAssumption DEF CallSound
  <1> QED
    BY <1>1, ClientInvHolds, PTL

-----------------------------------------------------------------------------
(* The API's dictionaries: what is answered is of the question asked and   *)
(* young enough, and no dictionary outgrows its limit by more than the     *)
(* requests under way.                                                     *)

Asked == Questions \cup {NoKey}
Data  == [read : Int, key : Asked]
Held  == [at : Nat, key : Asked, data : Data]

Steps == {"idle", "check", "again", "read", "empty", "save", "told"}

Requests ==
  [step : Steps, asked : Asked, start : Nat, hit : Held, data : Data,
   raced : BOOLEAN, told : Data, marked : BOOLEAN]

\* The variables' types, and a thread's `now` is not ahead of the clock.
CacheTypes ==
  /\ time \in Nat /\ endpoint \in Endpoints
  /\ threads \in [Threads -> Requests]
  /\ \A t \in Threads : threads[t].start <= time

\* An entry is dated no later than its data was read, and holds the question
\* the data answers.
Sound(e) ==
  /\ e \in Held
  /\ e.at <= e.data.read /\ e.key = e.data.key
  /\ ~endpoint.keyed => e.key = NoKey

\* So is every entry in the dictionary, under its own question.
HeldSound ==
  \A k \in DOMAIN held : Sound(held[k]) /\ (~IsSlot(endpoint) => held[k].key = k)

\* What a thread saw is sound, and what it read is not older than its request.
SawSound(t) ==
  LET r == threads[t]
  IN  /\ ~endpoint.keyed => r.asked = NoKey
      /\ r.hit # Nothing => Sound(r.hit) /\ (~IsSlot(endpoint) => r.hit.key = r.asked)
      /\ r.step \in {"empty", "save"} => r.start <= r.data.read /\ r.data.key = r.asked
      /\ r.step = "empty" => ~IsSlot(endpoint)
      /\ r.step = "again" => IsSlot(endpoint)

\* A slot that nobody overtook a thread at is as the thread saw it.
SlotAsSeen(t) ==
  LET r == threads[t]
  IN  IsSlot(endpoint) /\ ~r.raced =>
        /\ r.step = "check" => r.hit = Entry(r.asked)
        /\ r.step = "again" => Entry(r.asked) # Nothing /\ Fits(t, Entry(r.asked))

\* An answer that is not marked, of a thread nobody overtook.
GoodAnswer(t) ==
  LET r == threads[t]
  IN  Answered(t) /\ ~r.raced => r.start - r.told.read < Ttl /\ r.told.key = r.asked

CacheInv ==
  /\ CacheTypes /\ HeldSound
  /\ \A t \in Threads : SawSound(t) /\ SlotAsSeen(t) /\ GoodAnswer(t)

-----------------------------------------------------------------------------

\* A slot has one entry whatever is asked; the others keep one per question.
LEMMA EndpointShape ==
  ASSUME NEW e \in Endpoints
  PROVE  /\ e.keyed \in BOOLEAN
         /\ IsSlot(e) => e.slot \in {"again", "once"}
         /\ ~IsSlot(e) => e.keyed /\ e.slot \in {"single", "many"}
         /\ e.slot = "once" => ~e.keyed
  <1> USE DEF Endpoint
  <1>1. CASE e = Pulse
    BY <1>1 DEF Pulse, IsSlot
  <1>2. CASE e = Mining
    BY <1>2 DEF Mining, IsSlot
  <1>3. CASE e = PriceLatest
    BY <1>3 DEF PriceLatest, IsSlot
  <1>4. CASE e = PriceNow
    BY <1>4 DEF PriceNow, IsSlot
  <1>5. CASE e = BurnLatest
    BY <1>5 DEF BurnLatest, IsSlot
  <1>6. CASE e = PayoutStudy
    BY <1>6 DEF PayoutStudy, IsSlot
  <1>7. CASE e = MiningSeries
    BY <1>7 DEF MiningSeries, IsSlot
  <1>8. CASE e = PriceSeriesOf
    BY <1>8 DEF PriceSeriesOf, IsSlot
  <1>9. CASE e = PriceDaysOf
    BY <1>9 DEF PriceDaysOf, IsSlot
  <1>10. CASE e = PriceAverage
    BY <1>10 DEF PriceAverage, IsSlot
  <1>11. CASE e = TrendLinesOf
    BY <1>11 DEF TrendLinesOf, IsSlot
  <1> QED
    BY <1>1, <1>2, <1>3, <1>4, <1>5, <1>6, <1>7, <1>8, <1>9, <1>10, <1>11
    DEF Endpoints

\* What a question finds is nothing, or a sound entry of this very question.
LEMMA FoundIsSound ==
  ASSUME CacheInv, NEW q
  PROVE  Entry(q) # Nothing => Sound(Entry(q)) /\ (~IsSlot(endpoint) => Entry(q).key = q)
  <1>1. CASE Slot(endpoint, q) \in DOMAIN held
    BY <1>1 DEF CacheInv, HeldSound, Entry, Slot
  <1>2. CASE Slot(endpoint, q) \notin DOMAIN held
    BY <1>2 DEF Entry
  <1> QED
    BY <1>1, <1>2

\* An empty entry is of the type, though it is not sound.
LEMMA EntryTyped ==
  ASSUME CacheInv, NEW q
  PROVE  Entry(q) \in Held
  <1>1. Nothing \in Held
    BY DEF Nothing, Held, Data, NoData, Asked
  <1> QED
    BY <1>1 DEF CacheInv, HeldSound, Sound, Entry

\* Nothing is held and nobody asks.
LEMMA CacheStarts == CacheInit => CacheInv
  <1> SUFFICES ASSUME CacheInit PROVE CacheInv
    OBVIOUS
  <1>1. Nothing \in Held /\ NoData \in Data /\ NoKey \in Asked
    BY DEF Nothing, Held, Data, NoData, Asked
  <1>2. Idle \in Requests
    BY <1>1 DEF Idle, Requests, Steps
  <1>3. CacheTypes
    BY <1>2 DEF CacheInit, CacheTypes, Idle
  <1>4. HeldSound
    BY DEF CacheInit, HeldSound
  <1>5. \A t \in Threads : SawSound(t) /\ SlotAsSeen(t) /\ GoodAnswer(t)
    BY DEF CacheInit, SawSound, SlotAsSeen, GoodAnswer, Answered, Idle
  <1> QED
    BY <1>3, <1>4, <1>5 DEF CacheInv

\* One thread moves, and leaves the dictionary as it is.
LEMMA OneThread ==
  ASSUME CacheInv, NEW t \in Threads,
         UNCHANGED <<time, endpoint, held>>,
         threads' \in [Threads -> Requests],
         \A u \in Threads \ {t} : threads'[u] = threads[u],
         threads'[t].start <= time,
         SawSound(t)', SlotAsSeen(t)', GoodAnswer(t)'
  PROVE  CacheInv'
  <1>1. CacheTypes'
    BY DEF CacheInv, CacheTypes
  <1>2. HeldSound'
    BY DEF CacheInv, HeldSound, Sound, IsSlot
  <1>3. ASSUME NEW u \in Threads, u # t
        PROVE  SawSound(u)' /\ SlotAsSeen(u)' /\ GoodAnswer(u)'
    <2>1. threads'[u] = threads[u] /\ SawSound(u) /\ SlotAsSeen(u) /\ GoodAnswer(u)
      BY <1>3 DEF CacheInv
    <2> QED
      BY <2>1 DEF SawSound, SlotAsSeen, GoodAnswer, Sound, IsSlot, Entry, Slot, Fits, Answered
  <1> QED
    BY <1>1, <1>2, <1>3 DEF CacheInv

\* A thread's answer is of the type, and its fields are what they were set to.
LEMMA ToldShape ==
  ASSUME CacheInv, NEW t \in Threads, NEW data \in Data, NEW marked \in BOOLEAN,
         threads' = Told(t, data, marked)
  PROVE  /\ threads' \in [Threads -> Requests]
         /\ \A u \in Threads \ {t} : threads'[u] = threads[u]
         /\ threads'[t].step = "told" /\ threads'[t].told = data
         /\ threads'[t].marked = marked /\ threads'[t].hit = Nothing
         /\ threads'[t].start = threads[t].start /\ threads'[t].asked = threads[t].asked
         /\ threads'[t].raced = threads[t].raced
  <1>1. Nothing \in Held /\ NoData \in Data
    BY DEF Nothing, Held, Data, NoData, Asked
  <1>2. threads \in [Threads -> Requests]
    BY DEF CacheInv, CacheTypes
  <1> DEFINE r == [threads[t] EXCEPT !.step = "told", !.told = data, !.marked = marked,
                                     !.hit = Nothing, !.data = NoData]
  <1>3. threads[t] \in Requests /\ threads' = [threads EXCEPT ![t] = r]
    BY <1>2 DEF Told
  <1>4. r \in Requests
    BY <1>1, <1>3 DEF Requests, Steps
  <1>5. /\ r.step = "told" /\ r.told = data /\ r.marked = marked /\ r.hit = Nothing
        /\ r.start = threads[t].start /\ r.asked = threads[t].asked /\ r.raced = threads[t].raced
    BY <1>3 DEF Requests
  <1> HIDE DEF r
  <1> QED
    BY <1>2, <1>3, <1>4, <1>5

\* A thread at its next step is otherwise as it was.
LEMMA ToShape ==
  ASSUME CacheInv, NEW t \in Threads, NEW step \in Steps, threads' = To(t, step)
  PROVE  /\ threads' \in [Threads -> Requests]
         /\ \A u \in Threads \ {t} : threads'[u] = threads[u]
         /\ threads'[t] = [threads[t] EXCEPT !.step = step]
         /\ threads'[t].step = step
         /\ \A f \in {"asked", "start", "hit", "data", "raced", "told", "marked"} :
              threads'[t][f] = threads[t][f]
  <1>1. threads \in [Threads -> Requests] /\ threads[t] \in Requests
    BY DEF CacheInv, CacheTypes
  <1> DEFINE r == [threads[t] EXCEPT !.step = step]
  <1>2. r \in Requests /\ r.step = step
    BY <1>1 DEF Requests, Steps
  <1>3. \A f \in {"asked", "start", "hit", "data", "raced", "told", "marked"} :
          r[f] = threads[t][f]
    BY <1>1 DEF Requests
  <1>4. threads' = [threads EXCEPT ![t] = r]
    BY DEF To
  <1> QED
    BY <1>1, <1>2, <1>3, <1>4

-----------------------------------------------------------------------------

\* The first look: what it finds is what the slot holds.
LEMMA LookKeeps ==
  ASSUME CacheInv, NEW t \in Threads, Look(t)
  PROVE  CacheInv'
  <1>1. PICK q \in IF endpoint.keyed THEN Questions ELSE {NoKey} :
          threads' = [threads EXCEPT ![t] = [Idle EXCEPT !.step = "check", !.asked = q,
                                                         !.start = time, !.hit = Entry(q)]]
    BY DEF Look
  <1> DEFINE r == [Idle EXCEPT !.step = "check", !.asked = q, !.start = time, !.hit = Entry(q)]
  <1>2. threads \in [Threads -> Requests] /\ time \in Nat /\ endpoint.keyed \in BOOLEAN
    BY EndpointShape DEF CacheInv, CacheTypes
  <1>3. q \in Asked /\ (~endpoint.keyed => q = NoKey)
    BY <1>1, <1>2 DEF Asked
  <1>4. Nothing \in Held /\ NoData \in Data /\ Entry(q) \in Held
    BY EntryTyped DEF Nothing, Held, Data, NoData, Asked
  <1>5. r \in Requests
    BY <1>2, <1>3, <1>4 DEF Idle, Requests, Steps
  <1>6. /\ r.step = "check" /\ r.asked = q /\ r.start = time /\ r.hit = Entry(q)
    BY DEF Idle
  <1>7. threads' = [threads EXCEPT ![t] = r]
    BY <1>1
  <1> HIDE DEF r
  <1>8. UNCHANGED <<time, endpoint, held>>
    BY DEF Look
  <1>9. /\ threads' \in [Threads -> Requests] /\ threads'[t] = r
        /\ \A u \in Threads \ {t} : threads'[u] = threads[u]
    BY <1>2, <1>5, <1>7
  <1>10. SawSound(t)'
    BY <1>3, <1>6, <1>8, <1>9, FoundIsSound DEF SawSound, Sound, IsSlot
  <1>11. SlotAsSeen(t)'
    BY <1>6, <1>8, <1>9 DEF SlotAsSeen, Entry, Slot, IsSlot
  <1>12. GoodAnswer(t)'
    BY <1>6, <1>9 DEF GoodAnswer, Answered
  <1> QED
    BY <1>2, <1>6, <1>8, <1>9, <1>10, <1>11, <1>12, OneThread

\* The look at the age, of an entry that is still the one first seen unless the
\* thread was overtaken.
LEMMA CheckKeeps ==
  ASSUME CacheInv, NEW t \in Threads, Check(t)
  PROVE  CacheInv'
  <1>1. /\ UNCHANGED <<time, endpoint, held>> /\ threads[t].step = "check"
        /\ threads[t] \in Requests /\ threads[t].start <= time
        /\ SawSound(t) /\ SlotAsSeen(t) /\ endpoint \in Endpoints
    BY DEF Check, CacheInv, CacheTypes
  <1>2. CASE threads' = To(t, "read")
    <2>1. "read" \in Steps
      BY DEF Steps
    <2>2. SawSound(t)' /\ SlotAsSeen(t)' /\ GoodAnswer(t)'
      BY <1>1, <1>2, <2>1, ToShape
         DEF SawSound, SlotAsSeen, GoodAnswer, Answered, Sound, IsSlot
    <2> QED
      BY <1>1, <1>2, <2>1, <2>2, ToShape, OneThread
  <1>3. CASE /\ threads' = To(t, "again") /\ endpoint.slot = "again"
             /\ threads[t].hit # Nothing /\ Fits(t, Dated(t))
    <2>1. "again" \in Steps
      BY DEF Steps
    <2>2. IsSlot(endpoint)
      BY <1>3 DEF IsSlot
    <2>3. SawSound(t)' /\ GoodAnswer(t)'
      BY <1>1, <1>3, <2>1, <2>2, ToShape
         DEF SawSound, GoodAnswer, Answered, Sound, IsSlot
    <2>4. SlotAsSeen(t)'
      <3>1. ~threads[t].raced => threads[t].hit = Entry(threads[t].asked)
        BY <1>1, <2>2 DEF SlotAsSeen
      <3>2. Dated(t) = Entry(threads[t].asked)
        BY <2>2 DEF Dated
      <3> QED
        BY <1>1, <1>3, <2>1, <3>1, <3>2, ToShape DEF SlotAsSeen, Entry, Slot, Fits, IsSlot
    <2> QED
      BY <1>1, <1>3, <2>1, <2>3, <2>4, ToShape, OneThread
  <1>4. CASE /\ threads' = Told(t, threads[t].hit.data, FALSE)
             /\ threads[t].hit # Nothing /\ Fits(t, Dated(t)) /\ endpoint.slot # "again"
    <2>1. threads[t].hit \in Held /\ threads[t].hit.data \in Data
      BY <1>1 DEF Requests, Held
    <2>2. Sound(threads[t].hit)
      BY <1>1, <1>4 DEF SawSound
    <2>3. ~threads[t].raced => /\ threads[t].start - threads[t].hit.data.read < Ttl
                               /\ threads[t].hit.data.key = threads[t].asked
      <3>1. CASE IsSlot(endpoint)
        <4>1. endpoint.slot = "once" /\ ~endpoint.keyed
          BY <1>1, <1>4, <3>1, EndpointShape
        <4>2. ~threads[t].raced => Dated(t) = threads[t].hit
          BY <1>1, <3>1 DEF SlotAsSeen, Dated
        <4>3. threads[t].hit.key = NoKey /\ threads[t].asked = NoKey
          BY <1>1, <2>2, <4>1 DEF Sound, SawSound
        <4> QED
          BY <1>1, <1>4, <2>1, <2>2, <4>2, <4>3, CacheAssumption
             DEF Fits, Sound, Held, Data, Requests
      <3>2. CASE ~IsSlot(endpoint)
        BY <1>1, <1>4, <2>1, <2>2, <3>2, CacheAssumption
           DEF Fits, Sound, Held, Data, Requests, Dated, SawSound
      <3> QED
        BY <3>1, <3>2
    <2>4. SawSound(t)' /\ SlotAsSeen(t)' /\ GoodAnswer(t)'
      BY <1>1, <1>4, <2>1, <2>3, ToldShape
         DEF SawSound, SlotAsSeen, GoodAnswer, Answered, Sound, IsSlot
    <2> QED
      BY <1>1, <1>4, <2>1, <2>4, ToldShape, OneThread
  <1> QED
    BY <1>2, <1>3, <1>4 DEF Check

\* The look at the data, which is still what the age was taken from.
LEMMA AgainKeeps ==
  ASSUME CacheInv, NEW t \in Threads, Again(t)
  PROVE  CacheInv'
  <1> DEFINE e == Entry(threads[t].asked)
  <1>1. /\ UNCHANGED <<time, endpoint, held>> /\ threads' = Told(t, e.data, FALSE)
        /\ threads[t] \in Requests /\ threads[t].start <= time /\ threads[t].step = "again"
        /\ SawSound(t) /\ SlotAsSeen(t) /\ endpoint \in Endpoints /\ IsSlot(endpoint)
    BY DEF Again, CacheInv, CacheTypes, SawSound
  <1>2. e \in Held /\ e.data \in Data
    BY EntryTyped DEF Held
  <1>3. ~threads[t].raced => e # Nothing /\ Sound(e) /\ Fits(t, e)
    BY <1>1, FoundIsSound DEF SlotAsSeen
  <1>4. ~threads[t].raced => /\ threads[t].start - e.data.read < Ttl
                             /\ e.data.key = threads[t].asked
    BY <1>1, <1>2, <1>3, CacheAssumption DEF Fits, Sound, SawSound, Held, Data, Requests
  <1> HIDE DEF e
  <1>5. SawSound(t)' /\ SlotAsSeen(t)' /\ GoodAnswer(t)'
    BY <1>1, <1>2, <1>4, ToldShape
       DEF SawSound, SlotAsSeen, GoodAnswer, Answered, Sound, IsSlot
  <1> QED
    BY <1>1, <1>2, <1>5, ToldShape, OneThread

\* What is read is no older than the request; what is answered when the read
\* fails is marked.
LEMMA ReadKeeps ==
  ASSUME CacheInv, NEW t \in Threads, Read(t)
  PROVE  CacheInv'
  <1>1. /\ UNCHANGED <<time, endpoint, held>> /\ time \in Nat
        /\ threads \in [Threads -> Requests] /\ threads[t] \in Requests
        /\ threads[t].start <= time /\ SawSound(t)
    BY DEF Read, CacheInv, CacheTypes
  <1>2. CASE threads' = [threads EXCEPT ![t] =
               [@ EXCEPT !.step = IF IsSlot(endpoint) THEN "save" ELSE "empty",
                         !.data = [read |-> time, key |-> threads[t].asked]]]
    <2> DEFINE r == [threads[t] EXCEPT !.step = IF IsSlot(endpoint) THEN "save" ELSE "empty",
                                       !.data = [read |-> time, key |-> threads[t].asked]]
    <2>1. [read |-> time, key |-> threads[t].asked] \in Data
      BY <1>1 DEF Data, Requests
    <2>2. r \in Requests
      BY <1>1, <2>1 DEF Requests, Steps
    <2>3. /\ r.step = IF IsSlot(endpoint) THEN "save" ELSE "empty"
          /\ r.data.read = time /\ r.data.key = threads[t].asked
          /\ r.asked = threads[t].asked /\ r.start = threads[t].start /\ r.hit = threads[t].hit
      BY <1>1 DEF Requests
    <2>4. threads' = [threads EXCEPT ![t] = r]
      BY <1>2
    <2> HIDE DEF r
    <2>5. /\ threads' \in [Threads -> Requests] /\ threads'[t] = r
          /\ \A u \in Threads \ {t} : threads'[u] = threads[u]
      BY <1>1, <2>2, <2>4
    <2>6. SawSound(t)' /\ SlotAsSeen(t)' /\ GoodAnswer(t)'
      BY <1>1, <2>3, <2>5 DEF SawSound, SlotAsSeen, GoodAnswer, Answered, Sound, IsSlot
    <2> QED
      BY <1>1, <2>3, <2>5, <2>6, OneThread
  <1>3. CASE threads' = Told(t, Fallback(t), TRUE)
    <2>1. Fallback(t) \in Data
      BY <1>1, EntryTyped DEF Fallback, Held, Requests
    <2>2. SawSound(t)' /\ SlotAsSeen(t)' /\ GoodAnswer(t)'
      BY <1>1, <1>3, <2>1, ToldShape
         DEF SawSound, SlotAsSeen, GoodAnswer, Answered, Sound, IsSlot
    <2> QED
      BY <1>1, <1>3, <2>1, <2>2, ToldShape, OneThread
  <1> QED
    BY <1>2, <1>3 DEF Read

\* Only a dictionary of entries is emptied, and nobody looks at one twice.
LEMMA EmptyKeeps ==
  ASSUME CacheInv, NEW t \in Threads, Empty(t)
  PROVE  CacheInv'
  <1>1. /\ UNCHANGED <<time, endpoint>> /\ threads' = To(t, "save") /\ "save" \in Steps
        /\ held' = <<>> \/ held' = held
        /\ threads[t].step = "empty" /\ ~IsSlot(endpoint)
        /\ threads[t].start <= time /\ SawSound(t)
    BY DEF Empty, CacheInv, CacheTypes, SawSound, Steps
  <1>2. HeldSound'
    <2>1. CASE held' = <<>>
      BY <2>1 DEF HeldSound
    <2>2. CASE held' = held
      BY <1>1, <2>2 DEF CacheInv, HeldSound, Sound, IsSlot
    <2> QED
      BY <1>1, <2>1, <2>2
  <1>3. CacheTypes'
    BY <1>1, ToShape DEF CacheInv, CacheTypes
  <1>4. \A u \in Threads : SlotAsSeen(u)'
    BY <1>1 DEF SlotAsSeen, IsSlot
  <1>5. SawSound(t)' /\ GoodAnswer(t)'
    BY <1>1, ToShape DEF SawSound, GoodAnswer, Answered, Sound, IsSlot
  <1>6. ASSUME NEW u \in Threads \ {t} PROVE SawSound(u)' /\ GoodAnswer(u)'
    <2>1. threads'[u] = threads[u] /\ SawSound(u) /\ GoodAnswer(u)
      BY <1>1, ToShape DEF CacheInv
    <2> QED
      BY <1>1, <2>1 DEF SawSound, GoodAnswer, Answered, Sound, IsSlot
  <1> QED
    BY <1>2, <1>3, <1>4, <1>5, <1>6 DEF CacheInv

\* The entry is dated by its request and read no earlier; the threads that look
\* at the slot meanwhile are overtaken.
LEMMA SaveKeeps ==
  ASSUME CacheInv, NEW t \in Threads, Save(t)
  PROVE  CacheInv'
  <1> DEFINE r == threads[t]
             e == [at |-> r.start, key |-> r.asked, data |-> r.data]
             After(u) == [threads[u] EXCEPT !.raced =
                            @ \/ (IsSlot(endpoint) /\ threads[u].step \in {"check", "again"})]
  <1>1. /\ UNCHANGED <<time, endpoint>> /\ time \in Nat
        /\ held' = [q \in DOMAIN held \cup {Slot(endpoint, r.asked)} |->
                      IF q = Slot(endpoint, r.asked) THEN e ELSE held[q]]
        /\ threads \in [Threads -> Requests] /\ \A u \in Threads : threads[u].start <= time
        /\ r \in Requests /\ r.step = "save" /\ SawSound(t)
    BY DEF Save, Stamp, CacheInv, CacheTypes
  <1>2. Sound(e) /\ (~IsSlot(endpoint) => e.key = Slot(endpoint, r.asked))
    BY <1>1 DEF SawSound, Sound, Held, Requests, Slot
  <1>3. HeldSound'
    <2>1. ASSUME NEW k \in DOMAIN held'
          PROVE  \/ held'[k] = e /\ k = Slot(endpoint, r.asked)
                 \/ k \in DOMAIN held /\ held'[k] = held[k]
      BY <1>1, <2>1
    <2> QED
      BY <1>1, <1>2, <2>1 DEF CacheInv, HeldSound, Sound, IsSlot
  <1>4. threads' = [u \in Threads |-> IF u = t THEN Told(t, r.data, FALSE)[t] ELSE After(u)]
    BY DEF Save
  <1>5. /\ threads'[t] \in Requests
        /\ threads'[t].step = "told" /\ threads'[t].told = r.data /\ threads'[t].hit = Nothing
        /\ threads'[t].start = r.start /\ threads'[t].asked = r.asked
    <2> DEFINE n == [r EXCEPT !.step = "told", !.told = r.data, !.marked = FALSE,
                              !.hit = Nothing, !.data = NoData]
    <2>1. Nothing \in Held /\ NoData \in Data /\ r.data \in Data
      BY <1>1 DEF Nothing, Held, Data, NoData, Asked, Requests
    <2>2. n \in Requests
      BY <1>1, <2>1 DEF Requests, Steps
    <2>3. /\ n.step = "told" /\ n.told = r.data /\ n.hit = Nothing
          /\ n.start = r.start /\ n.asked = r.asked
      BY <1>1 DEF Requests
    <2>4. threads'[t] = n
      <3>1. Told(t, r.data, FALSE) = [threads EXCEPT ![t] = n]
        BY DEF Told
      <3> HIDE DEF n
      <3> QED
        BY <1>1, <1>4, <3>1
    <2> QED
      BY <2>2, <2>3, <2>4
  <1>6. SawSound(t)' /\ SlotAsSeen(t)' /\ GoodAnswer(t)'
    <2>1. r.start - r.data.read < Ttl /\ r.data.key = r.asked
      BY <1>1, CacheAssumption DEF SawSound, Requests, Data
    <2> QED
      BY <1>1, <1>5, <2>1 DEF SawSound, SlotAsSeen, GoodAnswer, Answered, Sound, IsSlot
  <1>7. ASSUME NEW u \in Threads, u # t
        PROVE  /\ threads'[u] \in Requests /\ threads'[u].start = threads[u].start
               /\ SawSound(u)' /\ SlotAsSeen(u)' /\ GoodAnswer(u)'
    <2>1. threads[u] \in Requests /\ threads'[u] = After(u)
      BY <1>1, <1>4, <1>7
    <2>2. After(u) \in Requests
      BY <2>1 DEF Requests
    <2>3. /\ \A f \in {"step", "asked", "start", "hit", "data", "told", "marked"} :
               After(u)[f] = threads[u][f]
          /\ After(u).raced = (threads[u].raced \/
               (IsSlot(endpoint) /\ threads[u].step \in {"check", "again"}))
      BY <2>1 DEF Requests
    <2> HIDE DEF After
    <2>4. SawSound(u)'
      BY <1>1, <2>1, <2>3 DEF CacheInv, SawSound, Sound, IsSlot
    <2>5. SlotAsSeen(u)'
      BY <1>1, <2>1, <2>3 DEF SlotAsSeen, IsSlot
    <2>6. GoodAnswer(u)'
      BY <1>1, <2>1, <2>3 DEF CacheInv, GoodAnswer, Answered
    <2> QED
      BY <2>1, <2>2, <2>3, <2>4, <2>5, <2>6
  <1>8. CacheTypes'
    BY <1>1, <1>4, <1>5, <1>7 DEF CacheInv, CacheTypes
  <1> QED
    BY <1>3, <1>6, <1>7, <1>8 DEF CacheInv

\* Time passes, and every request was there before.
LEMMA PassKeeps ==
  ASSUME CacheInv, CachePass
  PROVE  CacheInv'
  BY DEF CacheInv, CachePass, CacheTypes, HeldSound, Sound, SawSound, SlotAsSeen, GoodAnswer,
         Answered, Entry, Slot, IsSlot, Fits, Requests

-----------------------------------------------------------------------------

\* Every step of every thread keeps the invariant.
LEMMA CacheInvKept == CacheInv /\ [CacheNext]_cacheVars => CacheInv'
  <1>1. ASSUME CacheInv, CacheNext PROVE CacheInv'
    BY <1>1, LookKeeps, CheckKeeps, AgainKeeps, ReadKeeps, EmptyKeeps, SaveKeeps, PassKeeps
       DEF CacheNext
  <1>2. ASSUME CacheInv, UNCHANGED cacheVars PROVE CacheInv'
    BY <1>2 DEF cacheVars, CacheInv, CacheTypes, HeldSound, Sound, SawSound, SlotAsSeen,
                GoodAnswer, Answered, Entry, Slot, IsSlot, Fits
  <1> QED
    BY <1>1, <1>2

\* The invariant holds for each cached endpoint and any number of threads.
THEOREM CacheInvHolds == CacheSpec => []CacheInv
  <1> QED
    BY CacheStarts, CacheInvKept, PTL DEF CacheSpec

\* An answer that is not marked stale was read less than the TTL before its
\* request began, unless the slot was overwritten between the request's looks
\* (api/server.py, the cached endpoints).
THEOREM AnswersAreFresh == CacheSpec => []FreshUnlessMarked
  <1>1. CacheInv => FreshUnlessMarked
    BY DEF CacheInv, GoodAnswer, FreshUnlessMarked
  <1> QED
    BY <1>1, CacheInvHolds, PTL

\* And it answers the question that was asked (api/server.py price_epochs).
THEOREM AnswersAreAskedFor == CacheSpec => []AnswersTheQuestion
  <1>1. CacheInv => AnswersTheQuestion
    BY DEF CacheInv, GoodAnswer, AnswersTheQuestion
  <1> QED
    BY <1>1, CacheInvHolds, PTL
-----------------------------------------------------------------------------
(* The size of a dictionary.  A request that has emptied it, or found that it *)
(* need not be, will write one entry without looking again: the room it will  *)
(* take is reserved.                                                          *)

Writers == {t \in Threads : threads[t].step = "save"}

Room == IF endpoint.slot = "many" THEN MostEntries ELSE 0

SizeInv ==
  /\ IsFiniteSet(DOMAIN held)
  /\ IsSlot(endpoint) => DOMAIN held \subseteq {NoKey}
  /\ ~IsSlot(endpoint) =>
       Cardinality(DOMAIN held) + Cardinality(Writers) <= Cardinality(Threads) + Room

\* There are no more writers than threads.
LEMMA WritersCounted ==
  /\ IsFiniteSet(Writers) /\ Cardinality(Writers) \in Nat
  /\ Cardinality(Threads) \in Nat \ {0}
  /\ Cardinality(Writers) <= Cardinality(Threads)
  /\ Room \in Nat
  <1>1. IsFiniteSet(Threads) /\ Writers \in SUBSET Threads /\ Threads # {}
    BY CacheAssumption DEF Writers
  <1>2. IsFiniteSet(Writers) /\ Cardinality(Writers) <= Cardinality(Threads)
    BY <1>1, FS_Subset
  <1>3. Cardinality(Writers) \in Nat /\ Cardinality(Threads) \in Nat
    BY <1>1, <1>2, FS_CardinalityType
  <1>4. Cardinality(Threads) # 0
    BY <1>1, FS_EmptySet
  <1> QED
    BY <1>2, <1>3, <1>4, CacheAssumption DEF Room

\* A thread that does not come to write, and was not writing, changes nothing.
LEMMA SameWriters ==
  ASSUME NEW t \in Threads, SizeInv, UNCHANGED <<endpoint, held>>,
         \A u \in Threads \ {t} : threads'[u] = threads[u],
         IsSlot(endpoint) \/ (threads[t].step # "save" /\ threads'[t].step # "save")
  PROVE  SizeInv'
  <1>1. ~IsSlot(endpoint) => Writers' = Writers
    BY DEF Writers
  <1> QED
    BY <1>1 DEF SizeInv, IsSlot, Room

LEMMA SizeStarts == CacheInit => SizeInv
  <1> SUFFICES ASSUME CacheInit PROVE SizeInv
    OBVIOUS
  <1>1. DOMAIN held = {}
    BY DEF CacheInit
  <1>2. IsFiniteSet(DOMAIN held) /\ Cardinality(DOMAIN held) = 0
    BY <1>1, FS_EmptySet
  <1> QED
    BY <1>1, <1>2, WritersCounted DEF SizeInv

\* Emptied, or found small enough: every thread may still write.
LEMMA EmptySizes ==
  ASSUME CacheInv, SizeInv, NEW t \in Threads, Empty(t)
  PROVE  SizeInv'
  <1>1. UNCHANGED endpoint /\ ~IsSlot(endpoint) /\ endpoint \in Endpoints
    BY DEF Empty, CacheInv, CacheTypes, SawSound
  <1>2. held' = IF Full THEN <<>> ELSE held
    BY DEF Empty
  <1>3. IsFiniteSet(DOMAIN held') /\ Cardinality(DOMAIN held') <= Room
    <2>1. CASE Full
      <3>1. DOMAIN held' = {}
        BY <1>2, <2>1
      <3>2. IsFiniteSet(DOMAIN held') /\ Cardinality(DOMAIN held') = 0
        BY <3>1, FS_EmptySet
      <3> QED
        BY <3>2, WritersCounted
    <2>2. CASE ~Full
      <3>1. endpoint.slot = "many" /\ ~(Cardinality(DOMAIN held) > MostEntries)
        BY <1>1, <2>2, EndpointShape DEF Full
      <3>2. Cardinality(DOMAIN held) \in Nat
        BY FS_CardinalityType DEF SizeInv
      <3>3. held' = held
        BY <1>2, <2>2
      <3> QED
        BY <3>1, <3>2, <3>3, CacheAssumption DEF SizeInv, Room
    <2> QED
      BY <2>1, <2>2
  <1>4. Cardinality(DOMAIN held') \in Nat
    BY <1>3, FS_CardinalityType
  <1>5. Cardinality(Writers') \in Nat /\ Cardinality(Writers') <= Cardinality(Threads)
    <2>1. IsFiniteSet(Threads) /\ Writers' \in SUBSET Threads
      BY CacheAssumption DEF Writers
    <2> QED
      BY <2>1, FS_Subset, FS_CardinalityType
  <1> QED
    BY <1>1, <1>3, <1>4, <1>5, WritersCounted DEF SizeInv, IsSlot, Room

\* The writer takes the room it had reserved.
LEMMA SaveSizes ==
  ASSUME CacheInv, SizeInv, NEW t \in Threads, Save(t)
  PROVE  SizeInv'
  <1> DEFINE k == Slot(endpoint, threads[t].asked)
  <1>1. UNCHANGED endpoint /\ threads[t].step = "save"
    BY DEF Save
  <1>2. DOMAIN held' = DOMAIN held \cup {k}
    BY DEF Save
  <1>3. /\ IsFiniteSet(DOMAIN held) /\ Cardinality(DOMAIN held) \in Nat
        /\ IsFiniteSet(DOMAIN held')
        /\ Cardinality(DOMAIN held') <= Cardinality(DOMAIN held) + 1
        /\ Cardinality(DOMAIN held') \in Nat
    <2>1. IsFiniteSet(DOMAIN held) /\ Cardinality(DOMAIN held) \in Nat
      BY FS_CardinalityType DEF SizeInv
    <2>2. /\ IsFiniteSet(DOMAIN held \cup {k})
          /\ Cardinality(DOMAIN held \cup {k}) <= Cardinality(DOMAIN held) + 1
      <3> DEFINE d == DOMAIN held
      <3> HIDE DEF k, d
      <3>1. IsFiniteSet(d) /\ Cardinality(d) \in Nat
        BY <2>1 DEF d
      <3>2. /\ IsFiniteSet(d \cup {k})
            /\ Cardinality(d \cup {k}) =
                 IF k \in d THEN Cardinality(d) ELSE Cardinality(d) + 1
        BY <3>1, FS_AddElement
      <3> QED
        BY <3>1, <3>2 DEF d
    <2>3. Cardinality(DOMAIN held \cup {k}) \in Nat
      BY <2>2, FS_CardinalityType
    <2> QED
      BY <1>2, <2>1, <2>2, <2>3
  <1>4. IsSlot(endpoint) => k = NoKey
    BY DEF Slot
  <1>5. Cardinality(Writers') = Cardinality(Writers) - 1
    <2>1. Writers' = Writers \ {t}
      <3>1. threads \in [Threads -> Requests]
        BY DEF CacheInv, CacheTypes
      <3>2. threads'[t].step = "told"
        <4>1. threads'[t] = Told(t, threads[t].data, FALSE)[t]
          BY DEF Save
        <4>2. Told(t, threads[t].data, FALSE)[t].step = "told"
          BY <3>1 DEF Told, Requests
        <4> QED
          BY <4>1, <4>2
      <3>3. ASSUME NEW u \in Threads, u # t PROVE threads'[u].step = threads[u].step
        <4>1. threads'[u] = [threads[u] EXCEPT !.raced =
                @ \/ (IsSlot(endpoint) /\ threads[u].step \in {"check", "again"})]
          BY <3>3 DEF Save
        <4>2. threads[u] \in Requests
          BY <3>1
        <4> QED
          BY <4>1, <4>2 DEF Requests
      <3> QED
        BY <1>1, <3>2, <3>3 DEF Writers
    <2>2. t \in Writers
      BY <1>1 DEF Writers
    <2> QED
      BY <2>1, <2>2, WritersCounted, FS_RemoveElement
  <1> HIDE DEF k
  <1> QED
    BY <1>1, <1>2, <1>3, <1>4, <1>5, WritersCounted DEF SizeInv, IsSlot, Room

\* Every step of every thread keeps the dictionary's size in bounds.
LEMMA SizeInvKept == CacheInv /\ SizeInv /\ [CacheNext]_cacheVars => SizeInv'
  <1> SUFFICES ASSUME CacheInv, SizeInv, [CacheNext]_cacheVars PROVE SizeInv'
    OBVIOUS
  <1>1. threads \in [Threads -> Requests]
    BY DEF CacheInv, CacheTypes
  <1>2. CASE CachePass \/ UNCHANGED cacheVars
    BY <1>2 DEF CachePass, cacheVars, SizeInv, IsSlot, Room, Writers
  <1>3. ASSUME NEW t \in Threads, Look(t) PROVE SizeInv'
    <2>1. PICK q : threads' = [threads EXCEPT ![t] =
             [Idle EXCEPT !.step = "check", !.asked = q, !.start = time, !.hit = Entry(q)]]
      BY <1>3 DEF Look
    <2>2. threads'[t].step = "check" /\ \A u \in Threads \ {t} : threads'[u] = threads[u]
      BY <1>1, <2>1 DEF Idle
    <2> QED
      BY <1>3, <2>2, SameWriters DEF Look
  <1>4. ASSUME NEW t \in Threads, Check(t) PROVE SizeInv'
    <2>1. \A u \in Threads \ {t} : threads'[u] = threads[u]
      BY <1>1, <1>4 DEF Check, To, Told
    <2>2. threads'[t].step # "save"
      BY <1>1, <1>4 DEF Check, To, Told, Requests
    <2> QED
      BY <1>4, <2>1, <2>2, SameWriters DEF Check
  <1>5. ASSUME NEW t \in Threads, Again(t) PROVE SizeInv'
    <2>1. \A u \in Threads \ {t} : threads'[u] = threads[u]
      BY <1>1, <1>5 DEF Again, Told
    <2>2. threads'[t].step # "save"
      BY <1>1, <1>5 DEF Again, Told, Requests
    <2> QED
      BY <1>5, <2>1, <2>2, SameWriters DEF Again
  <1>6. ASSUME NEW t \in Threads, Read(t) PROVE SizeInv'
    <2>1. \A u \in Threads \ {t} : threads'[u] = threads[u]
      BY <1>1, <1>6 DEF Read, Told
    <2>2. IsSlot(endpoint) \/ threads'[t].step # "save"
      BY <1>1, <1>6 DEF Read, Told, Requests
    <2> QED
      BY <1>6, <2>1, <2>2, SameWriters DEF Read
  <1> QED
    BY <1>2, <1>3, <1>4, <1>5, <1>6, EmptySizes, SaveSizes DEF CacheNext

\* However the requests interleave between emptying the dictionary and writing
\* to it, it holds at most one entry per thread beyond the size at which it is
\* emptied (api/server.py price_trendlines and the other dictionaries).
THEOREM DictionariesStaySmall == CacheSpec => []CacheBounded
  <1>1. SizeInv => CacheBounded
    <2> SUFFICES ASSUME SizeInv PROVE CacheBounded
      OBVIOUS
    <2>1. Cardinality(DOMAIN held) \in Nat
      BY FS_CardinalityType DEF SizeInv
    <2>2. CASE IsSlot(endpoint)
      <3>1. IsFiniteSet({NoKey}) /\ Cardinality({NoKey}) = 1
        BY FS_Singleton
      <3>2. Cardinality(DOMAIN held) <= 1
        BY <2>2, <3>1, FS_Subset DEF SizeInv
      <3> QED
        BY <2>1, <2>2, <3>2, WritersCounted DEF CacheBounded, Room, IsSlot
    <2>3. CASE ~IsSlot(endpoint)
      BY <2>1, <2>3, WritersCounted DEF SizeInv, CacheBounded, Room
    <2> QED
      BY <2>2, <2>3
  <1> QED
    BY <1>1, SizeStarts, SizeInvKept, CacheInvHolds, PTL DEF CacheSpec

=============================================================================
