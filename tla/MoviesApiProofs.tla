--------------------------- MODULE MoviesApiProofs ---------------------------
(***************************************************************************)
(* Proofs about MoviesApi, for any number of requests and readers, any     *)
(* time to live and any faults: the audit log is true, in order and, but   *)
(* for faults, complete; a cached list is recent, and what is missing in   *)
(* it was overtaken.                                                       *)
(***************************************************************************)
EXTENDS MoviesApi, TLAPS

-----------------------------------------------------------------------------
(* The inductive invariant *)

\* Entries come from requests that were answered, no later than now, and in order.
EntriesOK ==
    \A e \in recording \cup log :
        /\ step[e.request] = "answered" /\ e.createdAt <= now
        /\ \A f \in recording \cup log : e.request \in before[f.request] => e.createdAt <= f.createdAt

BeforeOK ==
    \A r \in Requests : /\ before[r] \subseteq In("answered")
                        /\ step[r] = "unsent" => before[r] = {}

\* A write finds no movie that was found before only if another request has deleted it
\* since this one was sent.
DeletionsOK ==
    \A r \in Requests :
        /\ step[r] = "found" /\ about[r] \notin movies => DeletedMeanwhile(r)
        /\ r \in missed => /\ kind[r] \in Blind /\ DeletedMeanwhile(r)
                           /\ step[r] \in {"changed", "answered", "interrupted"}

DoneInThePast == \A r \in Changed : doneAt[r] <= now

\* What a list that was read or is cached may miss.
MissesOvertaken(shows, overtaken) ==
    \A r \in Changed \cap In("answered") :
        kind[r] \in Clearing /\ r \notin shows => r \in overtaken

ReadersOK ==
    \A c \in Readers :
        /\ reader[c].step \in {"reading", "read"} => reader[c].at <= now
        /\ reader[c].step = "reading" => reader[c].overtaken = {}
        /\ reader[c].step = "read" =>
              /\ \A r \in Changed \ reader[c].shows : reader[c].at <= doneAt[r]
              /\ MissesOvertaken(reader[c].shows, reader[c].overtaken)

CacheOK ==
    cache # NoList =>
        /\ cache.until <= now + TTL
        /\ \A r \in Changed \ cache.shows : cache.until <= doneAt[r] + MaxRead + TTL
        /\ MissesOvertaken(cache.shows, cache.overtaken)

ApiInv ==
    /\ TypeOK /\ EntriesOK /\ BeforeOK /\ DeletionsOK /\ DoneInThePast /\ ReadersOK /\ CacheOK
    /\ ChangesAreLogged

-----------------------------------------------------------------------------
LEMMA ConstantTypes ==
    /\ TTL \in Nat /\ MaxRead \in Nat /\ MaxTime \in Nat /\ MaxFaults \in Nat
    /\ NoList \notin Lists
  BY TimeAssumption, ListAssumption DEF Lists

LEMMA InitInv == Init => ApiInv
  BY ConstantTypes DEF Init, ApiInv, TypeOK, EntriesOK, BeforeOK, DeletionsOK, DoneInThePast, ReadersOK, CacheOK,
     ChangesAreLogged, In, Changed, Idle, Gets, Steps, Kinds

\* Who was deleted meanwhile stays so, as long as nothing that was done is undone.
LEMMA DeletionsKept ==
    ASSUME ApiInv, UNCHANGED <<about, missed, movies>>,
           \A q \in Requests : step[q] # "unsent" => kind'[q] = kind[q] /\ before'[q] = before[q],
           \A q \in Requests : step'[q] = "found" => step[q] = "found" \/ about[q] \in movies,
           \A q \in Changed : q \in Changed',
           \A q \in missed : step'[q] \in {"changed", "answered", "interrupted"}
    PROVE  DeletionsOK'
<1>1. ASSUME NEW r \in Requests, step[r] # "unsent", DeletedMeanwhile(r)
      PROVE  DeletedMeanwhile(r)'
  <2>1. PICK d \in Changed : kind[d] = "delete" /\ about[d] = about[r] /\ d \notin before[r]
    BY <1>1 DEF DeletedMeanwhile
  <2>2. d \in Requests /\ step[d] # "unsent"
    BY <2>1 DEF Changed
  <2> QED
    BY <1>1, <2>1, <2>2 DEF DeletedMeanwhile
<1>2. ASSUME NEW r \in Requests
      PROVE  /\ step'[r] = "found" /\ about'[r] \notin movies' => DeletedMeanwhile(r)'
             /\ r \in missed' => /\ kind'[r] \in Blind /\ DeletedMeanwhile(r)'
                                 /\ step'[r] \in {"changed", "answered", "interrupted"}
  <2>1. CASE step'[r] = "found" /\ about'[r] \notin movies'
    <3>1. step[r] = "found" /\ DeletedMeanwhile(r)
      BY <2>1 DEF ApiInv, DeletionsOK
    <3>2. r \notin missed
      BY <2>1
    <3> QED
      BY <1>1, <3>1, <3>2
  <2>2. CASE r \in missed
    <3>1. kind[r] \in Blind /\ DeletedMeanwhile(r) /\ step[r] # "unsent"
      BY <2>2 DEF ApiInv, DeletionsOK
    <3> QED
      BY <1>1, <2>2, <3>1
  <2> QED
    BY <2>1, <2>2
<1> QED
  BY <1>2 DEF DeletionsOK

-----------------------------------------------------------------------------
(* Requests *)

LEMMA SendInv ==
    ASSUME ApiInv, NEW r \in Requests, NEW k \in Kinds, Send(r, k)
    PROVE  ApiInv'
<1>1. TypeOK'
  BY DEF ApiInv, TypeOK, Send, In, Steps, audit
<1>2. In("answered")' = In("answered") /\ Changed' = Changed
  BY DEF ApiInv, TypeOK, Send, In, Changed
<1>3. \A q \in In("answered") : kind'[q] = kind[q] /\ q # r
  BY DEF ApiInv, TypeOK, Send, In
<1>4. \A c \in Readers : MissesOvertaken(reader[c].shows, reader[c].overtaken)
                             => MissesOvertaken(reader[c].shows, reader[c].overtaken)'
  BY <1>2, <1>3 DEF MissesOvertaken, Send
<1>5. ReadersOK' /\ CacheOK'
  BY <1>2, <1>3, <1>4 DEF ApiInv, ReadersOK, CacheOK, MissesOvertaken, Send
<1>6. \A e \in recording \cup log : e.request \in Requests /\ e.request # r
  BY DEF ApiInv, TypeOK, EntriesOK, Entries, Send
<1>7. EntriesOK'
  BY <1>6 DEF ApiInv, TypeOK, EntriesOK, Send, audit
<1>8. BeforeOK' /\ DoneInThePast'
  BY <1>2 DEF ApiInv, TypeOK, BeforeOK, DoneInThePast, Send, In
<1>10. DeletionsOK'
  <2>1. /\ UNCHANGED <<about, missed, movies>>
        /\ \A q \in Requests : step[q] # "unsent" => kind'[q] = kind[q] /\ before'[q] = before[q]
        /\ \A q \in Requests : step'[q] = "found" => step[q] = "found"
    BY DEF ApiInv, TypeOK, Send
  <2>2. \A q \in missed : step'[q] \in {"changed", "answered", "interrupted"}
    BY DEF ApiInv, TypeOK, DeletionsOK, Send
  <2> QED
    BY <1>2, <2>1, <2>2, DeletionsKept
<1>9. ChangesAreLogged'
  BY <1>2, <1>3 DEF ApiInv, ChangesAreLogged, Send, audit
<1> QED
  BY <1>1, <1>5, <1>7, <1>8, <1>9, <1>10 DEF ApiInv

\* findOneByUUID: nobody is missed by what is found now.
LEMMA FindInv ==
    ASSUME ApiInv, NEW r \in Requests, Find(r)
    PROVE  ApiInv'
<1>1. /\ In("answered")' = In("answered") /\ Changed' = Changed
      /\ step[r] = "sent" /\ \A q \in Requests : q # r => step'[q] = step[q]
  BY DEF ApiInv, TypeOK, Find, In, Changed
<1>2. /\ UNCHANGED <<now, movies, kind, about, doneAt, missed, before, recording, log, cache, reader, faults>>
      /\ step' \in [Requests -> Steps] /\ step'[r] # "unsent"
  BY DEF ApiInv, TypeOK, Find, audit, Steps
<1>3. TypeOK'
  BY <1>2 DEF ApiInv, TypeOK
<1>4. ReadersOK' /\ CacheOK' /\ DoneInThePast'
  BY <1>1, <1>2 DEF ApiInv, ReadersOK, CacheOK, DoneInThePast, MissesOvertaken
<1>5. EntriesOK' /\ BeforeOK' /\ ChangesAreLogged'
  BY <1>1, <1>2 DEF ApiInv, TypeOK, EntriesOK, BeforeOK, ChangesAreLogged, Entries
<1>6. \A q \in missed : step'[q] \in {"changed", "answered", "interrupted"}
  BY <1>1 DEF ApiInv, TypeOK, DeletionsOK
<1>7. \A q \in Requests : step'[q] = "found" => step[q] = "found" \/ about[q] \in movies
  BY <1>1 DEF Find
<1>8. DeletionsOK'
  BY <1>1, <1>2, <1>6, <1>7, DeletionsKept
<1> QED
  BY <1>3, <1>4, <1>5, <1>8 DEF ApiInv

LEMMA ChangeInv ==
    ASSUME ApiInv, NEW r \in Requests, Change(r)
    PROVE  ApiInv'
<1>1. TypeOK'
  BY DEF ApiInv, TypeOK, Change, Steps, audit
<1>0. r \notin missed /\ step[r] \in {"sent", "found"}
  BY DEF ApiInv, DeletionsOK, Change, Ready
<1>2. In("answered")' = In("answered") /\ Changed' = Changed \cup {r} /\ r \notin Changed
  BY <1>0 DEF ApiInv, TypeOK, Change, In, Changed
<1>3. doneAt'[r] = now /\ \A q \in Changed : doneAt'[q] = doneAt[q]
  BY <1>2 DEF ApiInv, TypeOK, Change, Changed
<1>4. UNCHANGED <<now, kind, about, missed, before, recording, log, cache, reader, faults>>
  BY DEF Change, audit
<1>5. now \in Nat /\ \A c \in Readers : reader[c].at \in Nat
  BY ConstantTypes DEF ApiInv, TypeOK, Gets
<1>11. Changed' \cap In("answered")' = Changed \cap In("answered")
  BY <1>0, <1>2 DEF In
<1>6. ReadersOK'
  BY <1>2, <1>3, <1>4, <1>5, <1>11 DEF ApiInv, ReadersOK, MissesOvertaken
<1>7. cache # NoList => cache.until \in Nat
  BY ConstantTypes DEF ApiInv, TypeOK, Lists
<1>8. CacheOK'
  BY <1>2, <1>3, <1>4, <1>5, <1>7, <1>11, ConstantTypes DEF ApiInv, CacheOK, MissesOvertaken
<1>9. EntriesOK' /\ BeforeOK' /\ DoneInThePast' /\ ChangesAreLogged'
  BY <1>0, <1>2, <1>3, <1>4, <1>5
  DEF ApiInv, TypeOK, EntriesOK, BeforeOK, DoneInThePast, ChangesAreLogged, Change, In, Entries
<1>10. DeletionsOK'
  <2>1. ASSUME NEW q \in Requests, DeletedMeanwhile(q)
        PROVE  DeletedMeanwhile(q)'
    BY <1>2, <1>4, <2>1 DEF DeletedMeanwhile
  <2>2. /\ step'[r] = "changed"
        /\ \A q \in Requests : q # r => step'[q] = step[q]
    BY DEF Change, ApiInv, TypeOK
  <2>3. ASSUME NEW q \in Requests, step'[q] = "found", about'[q] \notin movies'
        PROVE  DeletedMeanwhile(q)'
    <3>1. step[q] = "found"
      BY <2>2, <2>3
    <3>2. CASE about[q] \notin movies
      BY <2>1, <3>1, <3>2 DEF ApiInv, DeletionsOK
    <3>3. CASE about[q] \in movies
      <4>1. kind[r] = "delete" /\ about[r] = about[q]
        BY <1>4, <2>3, <3>3 DEF Change
      <4>2. r \notin before[q]
        BY <1>0 DEF ApiInv, BeforeOK, In
      <4> QED
        BY <1>2, <1>4, <4>1, <4>2 DEF DeletedMeanwhile
    <3> QED
      BY <3>2, <3>3
  <2>4. ASSUME NEW q \in missed
        PROVE  /\ kind'[q] \in Blind /\ DeletedMeanwhile(q)'
               /\ step'[q] \in {"changed", "answered", "interrupted"}
    <3>1. q \in Requests /\ q # r
      BY <1>0, <2>4 DEF ApiInv, TypeOK
    <3>2. kind[q] \in Blind /\ DeletedMeanwhile(q) /\ step[q] \in {"changed", "answered", "interrupted"}
      BY <2>4, <3>1 DEF ApiInv, DeletionsOK
    <3> QED
      BY <1>4, <2>1, <2>2, <3>1, <3>2
  <2> QED
    BY <1>4, <2>3, <2>4 DEF DeletionsOK
<1> QED
  BY <1>1, <1>6, <1>8, <1>9, <1>10 DEF ApiInv

\* A write that finds no movie changes nothing but how far the request is.
LEMMA MissInv ==
    ASSUME ApiInv, NEW r \in Requests, Miss(r)
    PROVE  ApiInv'
<1>1. /\ In("answered")' = In("answered") /\ Changed' = Changed
      /\ step[r] = "found" /\ step'[r] = "changed"
      /\ \A q \in Requests : q # r => step'[q] = step[q]
  BY DEF ApiInv, TypeOK, Miss, In, Changed
<1>2. /\ UNCHANGED <<now, movies, kind, about, doneAt, before, recording, log, cache, reader, faults>>
      /\ missed' = missed \cup {r} /\ step' \in [Requests -> Steps]
  BY DEF ApiInv, TypeOK, Miss, audit, Steps
<1>3. TypeOK'
  BY <1>2 DEF ApiInv, TypeOK
<1>4. ReadersOK' /\ CacheOK' /\ DoneInThePast'
  BY <1>1, <1>2 DEF ApiInv, ReadersOK, CacheOK, DoneInThePast, MissesOvertaken
<1>5. EntriesOK' /\ BeforeOK' /\ ChangesAreLogged'
  BY <1>1, <1>2 DEF ApiInv, TypeOK, EntriesOK, BeforeOK, ChangesAreLogged, Entries
<1>6. DeletionsOK'
  <2>1. \A q \in Requests : DeletedMeanwhile(q)' <=> DeletedMeanwhile(q)
    BY <1>1, <1>2 DEF DeletedMeanwhile
  <2>2. kind[r] \in Blind /\ DeletedMeanwhile(r)
    BY DEF ApiInv, DeletionsOK, Miss
  <2> QED
    BY <1>1, <1>2, <2>1, <2>2 DEF ApiInv, DeletionsOK
<1> QED
  BY <1>3, <1>4, <1>5, <1>6 DEF ApiInv

\* A request that ends without an answer.
LEMMA EndInv ==
    ASSUME ApiInv, NEW r \in Requests, Refuse(r) \/ Interrupt(r)
    PROVE  ApiInv'
<1>1. /\ In("answered")' = In("answered") /\ Changed' = Changed
      /\ step[r] # "answered" /\ \A q \in Requests : q # r => step'[q] = step[q]
  BY DEF ApiInv, TypeOK, Refuse, Interrupt, In, Changed
<1>2. faults' \in 0..MaxFaults /\ (faults' = 0 => faults = 0)
  BY ConstantTypes DEF ApiInv, TypeOK, Refuse, Interrupt, Fault
<1>3. /\ UNCHANGED <<now, movies, kind, about, doneAt, missed, before, recording, log, cache, reader>>
      /\ step' \in [Requests -> Steps] /\ step'[r] # "unsent"
  BY DEF ApiInv, TypeOK, Refuse, Interrupt, audit, Steps
<1>4. TypeOK'
  BY <1>2, <1>3 DEF ApiInv, TypeOK
<1>5. ReadersOK' /\ CacheOK' /\ DoneInThePast'
  BY <1>1, <1>3 DEF ApiInv, ReadersOK, CacheOK, DoneInThePast, MissesOvertaken
<1>6. EntriesOK' /\ BeforeOK' /\ ChangesAreLogged'
  BY <1>1, <1>2, <1>3 DEF ApiInv, TypeOK, EntriesOK, BeforeOK, ChangesAreLogged, Entries
<1>7. DeletionsOK'
  <2>1. \A q \in missed : step'[q] \in {"changed", "answered", "interrupted"}
    BY DEF ApiInv, TypeOK, DeletionsOK, Refuse, Interrupt
  <2>2. \A q \in Requests : step'[q] = "found" => step[q] = "found"
    BY DEF ApiInv, TypeOK, Refuse, Interrupt
  <2> QED
    BY <1>1, <1>3, <2>1, <2>2, DeletionsKept
<1> QED
  BY <1>4, <1>5, <1>6, <1>7 DEF ApiInv

\* The second half of a handler: whether it emits and clears depends on its kind.
LEMMA AnswerInv ==
    ASSUME ApiInv, NEW r \in Requests, NEW k \in Kinds, NEW from \in {"found", "changed"},
           from = "found" => k = "postVideo",
           Answer(r, k, from),
           Emit(r) \/ (k = "patchVideo" /\ UNCHANGED recording),
           Clear(r) \/ (k \notin Clearing /\ UNCHANGED <<cache, reader>>)
    PROVE  ApiInv'
<1>0. kind[r] = k /\ UNCHANGED <<now, movies, kind, about, doneAt, missed, before, log, faults>>
  BY DEF Answer
<1>1. /\ In("answered")' = In("answered") \cup {r} /\ r \notin In("answered")
      /\ Changed' = Changed
      /\ step' \in [Requests -> Steps] /\ step'[r] = "answered"
      /\ \A q \in Requests : q # r => step'[q] = step[q]
  BY DEF ApiInv, TypeOK, Answer, In, Changed, Steps
<1>2. recording \subseteq recording' /\ recording' \subseteq recording \cup {[request |-> r, createdAt |-> now]}
  BY DEF Emit
<1>3. recording' \subseteq Entries
  BY <1>2 DEF ApiInv, TypeOK, Entries
<1>4. \A e \in recording \cup log : e.request \in Requests /\ e.request \in In("answered") /\ e.createdAt <= now
  BY DEF ApiInv, TypeOK, Entries, EntriesOK, In
<1>5. r \notin before[r] /\ \A q \in Requests : r \notin before[q]
  BY <1>1 DEF ApiInv, BeforeOK
<1>6. now \in Nat
  BY DEF ApiInv, TypeOK
<1>7. EntriesOK'
  <2> DEFINE new == [request |-> r, createdAt |-> now]
  <2>1. new.request = r /\ new.createdAt = now
    OBVIOUS
  <2>2. recording' \cup log' \subseteq (recording \cup log) \cup {new}
    BY <1>0, <1>2
  <2>3. \A e \in (recording \cup log) \cup {new} : step'[e.request] = "answered" /\ e.createdAt <= now
    BY <1>1, <1>4, <1>6, <2>1 DEF ApiInv, EntriesOK
  <2>4. \A e, f \in (recording \cup log) \cup {new} :
            e.request \in before[f.request] => e.createdAt <= f.createdAt
    BY <1>4, <1>5, <1>6, <2>1 DEF ApiInv, EntriesOK
  <2> HIDE DEF new
  <2> QED
    BY <1>0, <2>2, <2>3, <2>4 DEF EntriesOK
<1>8. BeforeOK' /\ DoneInThePast'
  BY <1>0, <1>1 DEF ApiInv, BeforeOK, DoneInThePast, TypeOK
<1>9. /\ cache' \in Lists \cup {NoList} /\ reader' \in [Readers -> Gets]
      /\ \A c \in Readers : /\ reader'[c].step = reader[c].step /\ reader'[c].at = reader[c].at
                            /\ reader'[c].shows = reader[c].shows
  BY DEF ApiInv, TypeOK, Clear, Gets
<1>10. \A c \in Readers : reader[c].step = "read" =>
            MissesOvertaken(reader[c].shows, reader[c].overtaken)'
  BY <1>0, <1>1 DEF ApiInv, TypeOK, ReadersOK, MissesOvertaken, Clear, Gets
<1>11. \A c \in Readers : reader[c].step = "reading" => reader'[c].overtaken = {}
  BY DEF ApiInv, TypeOK, ReadersOK, Clear
<1>12. ReadersOK'
  BY <1>0, <1>1, <1>9, <1>10, <1>11 DEF ApiInv, ReadersOK
<1>13. CacheOK'
  BY <1>0, <1>1 DEF ApiInv, CacheOK, MissesOvertaken, Clear
<1>14. TypeOK'
  BY <1>0, <1>1, <1>3, <1>9 DEF ApiInv, TypeOK
<1>16. DeletionsOK'
  <2>1. \A q \in missed : step'[q] \in {"changed", "answered", "interrupted"}
    BY <1>1 DEF ApiInv, TypeOK, DeletionsOK
  <2> QED
    BY <1>0, <1>1, <2>1, DeletionsKept
<1>15. ChangesAreLogged'
  <2>1. k # "patchVideo" => \E e \in recording' : e.request = r
    <3>1. CASE Emit(r)
      <4> DEFINE new == [request |-> r, createdAt |-> now]
      <4>1. new \in recording' /\ new.request = r
        BY <3>1 DEF Emit
      <4> QED
        BY <4>1
    <3> QED
      BY <3>1
  <2> QED
    BY <1>0, <1>1, <1>2, <2>1 DEF ApiInv, ChangesAreLogged
<1> QED
  BY <1>7, <1>8, <1>12, <1>13, <1>14, <1>15, <1>16 DEF ApiInv

LEMMA HandlerInv ==
    ASSUME ApiInv, NEW r \in Requests, Handler(r)
    PROVE  ApiInv'
<1>1. ASSUME NEW k \in Kinds, EmitAndClear(r, k)
      PROVE  ApiInv'
  BY <1>1, AnswerInv DEF EmitAndClear
<1>2. ASSUME NEW k \in Kinds \ Clearing, NEW from \in {"found", "changed"}, EmitOnly(r, k, from),
             from = "found" => k = "postVideo"
      PROVE  ApiInv'
  BY <1>2, AnswerInv DEF EmitOnly
<1>3. CASE PatchVideo(r)
  BY <1>3, AnswerInv DEF PatchVideo, Kinds
<1>4. CASE \/ Create(r) \/ Import(r) \/ UpdatePoster(r) \/ Update(r) \/ Publish(r) \/ Unpublish(r)
  BY <1>1, <1>4 DEF Create, Import, UpdatePoster, Update, Publish, Unpublish, Kinds
<1>5. CASE UpdateBackdrop(r) \/ PostVideo(r) \/ Delete(r)
  BY <1>2, <1>5 DEF UpdateBackdrop, PostVideo, Delete, Kinds, Clearing
<1> QED
  BY <1>3, <1>4, <1>5 DEF Handler

-----------------------------------------------------------------------------
(* The log, the list, the clock *)

LEMMA RecordInv ==
    ASSUME ApiInv, NEW e \in recording, Record(e) \/ RecordFails(e)
    PROVE  ApiInv'
<1>1. /\ recording' \cup log' \subseteq recording \cup log
      /\ faults' = 0 => faults = 0 /\ recording' \cup log' = recording \cup log
      /\ faults' \in 0..MaxFaults /\ recording' \subseteq Entries /\ log' \subseteq Entries
  BY ConstantTypes DEF ApiInv, TypeOK, Record, RecordFails, Fault
<1>2. UNCHANGED <<now, movies, request, cache, reader>>
  BY DEF Record, RecordFails
<1>3. DeletionsOK'
  BY <1>2 DEF ApiInv, DeletionsOK, DeletedMeanwhile, Changed, request
<1> QED
  BY <1>1, <1>2, <1>3
  DEF ApiInv, TypeOK, EntriesOK, BeforeOK, DoneInThePast, ReadersOK, CacheOK, MissesOvertaken,
      ChangesAreLogged, request, In, Changed

LEMMA ReadsInv ==
    ASSUME ApiInv, NEW c \in Readers,
           AnswerFromCache(c) \/ AskDatabase(c) \/ ReadAll(c) \/ CacheList(c)
    PROVE  ApiInv'
<1>0. UNCHANGED <<now, movies, kind, about, step, doneAt, missed, before, recording, log, faults>>
  BY DEF AnswerFromCache, AskDatabase, ReadAll, CacheList, request, audit
<1>1. In("answered")' = In("answered") /\ Changed' = Changed
  BY <1>0 DEF In, Changed
<1>2. EntriesOK' /\ BeforeOK' /\ DeletionsOK' /\ DoneInThePast' /\ ChangesAreLogged'
  BY <1>0, <1>1
  DEF ApiInv, EntriesOK, BeforeOK, DeletionsOK, DeletedMeanwhile, DoneInThePast, ChangesAreLogged
<1>3. /\ now \in 0..MaxTime /\ reader[c] \in Gets /\ Changed \subseteq Requests
      /\ Idle \in Gets /\ Answered \in Gets /\ Idle.step = "idle" /\ Answered.step = "answered"
  BY ConstantTypes DEF ApiInv, TypeOK, Changed, Idle, Answered, Gets
<1>4. CASE AnswerFromCache(c)
  BY <1>0, <1>1, <1>2, <1>3, <1>4
  DEF ApiInv, TypeOK, ReadersOK, CacheOK, MissesOvertaken, AnswerFromCache
<1>5. CASE AskDatabase(c)
  <2>1. /\ reader'[c] \in Gets /\ reader'[c].step = "reading" /\ reader'[c].at = now
        /\ reader'[c].overtaken = {}
    BY <1>3, <1>5 DEF AskDatabase, ApiInv, TypeOK, Idle, Gets
  <2>2. cache' = cache /\ \A d \in Readers : d # c => reader'[d] = reader[d]
    BY <1>5 DEF AskDatabase, ApiInv, TypeOK
  <2>3. reader' \in [Readers -> Gets]
    BY <1>5, <2>1 DEF AskDatabase, ApiInv, TypeOK
  <2>4. TypeOK'
    BY <1>0, <1>3, <2>1, <2>2, <2>3, ConstantTypes DEF ApiInv, TypeOK
  <2> QED
    BY <1>0, <1>1, <1>2, <1>3, <2>1, <2>2, <2>4 DEF ApiInv, ReadersOK, CacheOK, MissesOvertaken
<1>6. CASE ReadAll(c)
  <2>1. /\ reader'[c].step = "read" /\ reader'[c].at = reader[c].at
        /\ reader'[c].overtaken = {} /\ reader'[c].shows = Changed /\ reader'[c] \in Gets
        /\ reader[c].step = "reading"
    BY <1>3, <1>6 DEF ReadAll, ApiInv, TypeOK, ReadersOK, Gets
  <2>2. cache' = cache /\ \A d \in Readers : d # c => reader'[d] = reader[d]
    BY <1>6 DEF ReadAll, ApiInv, TypeOK
  <2>3. reader' \in [Readers -> Gets]
    BY <1>6, <2>1 DEF ReadAll, ApiInv, TypeOK
  <2>4. TypeOK'
    BY <1>0, <1>3, <2>1, <2>2, <2>3 DEF ApiInv, TypeOK
  <2> QED
    BY <1>0, <1>1, <1>2, <1>3, <2>1, <2>2, <2>4 DEF ApiInv, ReadersOK, CacheOK, MissesOvertaken
<1>7. CASE CacheList(c)
  <2>1. /\ reader[c].step = "read" /\ reader'[c] = Answered
        /\ \A d \in Readers : d # c => reader'[d] = reader[d]
        /\ cache' = [shows |-> reader[c].shows, until |-> now + TTL, overtaken |-> reader[c].overtaken]
    BY <1>7 DEF CacheList, ApiInv, TypeOK
  <2>2. reader' \in [Readers -> Gets] /\ cache' \in Lists
    BY <1>3, <1>7, <2>1, ConstantTypes DEF CacheList, ApiInv, TypeOK, Lists, Gets
  <2>3. /\ now <= reader[c].at + MaxRead /\ reader[c].at \in Nat
        /\ \A r \in Changed : doneAt[r] \in Nat
    BY <1>3, <2>1, ConstantTypes DEF ApiInv, TypeOK, Gets, Changed
  <2>4. /\ cache'.until = now + TTL /\ cache'.shows = reader[c].shows
        /\ cache'.overtaken = reader[c].overtaken
    BY <2>1
  <2>5. \A r \in Changed \ reader[c].shows : now + TTL <= doneAt[r] + MaxRead + TTL
    BY <1>3, <2>1, <2>3, ConstantTypes DEF ApiInv, ReadersOK
  <2>6. MissesOvertaken(cache.shows, cache.overtaken)'
    BY <1>0, <1>1, <2>1, <2>4 DEF ApiInv, ReadersOK, MissesOvertaken
  <2>7. CacheOK'
    BY <1>0, <1>1, <1>3, <2>4, <2>5, <2>6, ConstantTypes DEF CacheOK
  <2>8. TypeOK'
    BY <1>0, <1>3, <2>1, <2>2 DEF ApiInv, TypeOK
  <2>9. ReadersOK'
    BY <1>0, <1>1, <1>3, <2>1 DEF ApiInv, ReadersOK, MissesOvertaken
  <2> QED
    BY <1>2, <2>7, <2>8, <2>9 DEF ApiInv
<1> QED
  BY <1>4, <1>5, <1>6, <1>7

LEMMA TickInv ==
    ASSUME ApiInv, Tick
    PROVE  ApiInv'
<1>1. UNCHANGED <<movies, kind, about, step, doneAt, missed, before, recording, log, cache, reader, faults>>
  BY DEF Tick, request, audit
<1>2. now \in Nat /\ now' = now + 1 /\ now' \in 0..MaxTime
  BY ConstantTypes DEF Tick, ApiInv, TypeOK
<1>3. /\ \A c \in Readers : reader[c].at \in Nat
      /\ cache # NoList => cache.until \in Nat
      /\ \A r \in Requests : doneAt[r] \in Nat
      /\ \A e \in recording \cup log : e.createdAt \in Nat
  BY ConstantTypes DEF ApiInv, TypeOK, Gets, Lists, Entries
<1>4. \A c \in Readers : reader[c].step \in {"reading", "read"} => now' <= reader[c].at + MaxRead
  BY <1>2, <1>3, ConstantTypes DEF Tick
<1>5. TypeOK'
  BY <1>1, <1>2, <1>4 DEF ApiInv, TypeOK
<1>6. In("answered")' = In("answered") /\ Changed' = Changed /\ Changed \subseteq Requests
  BY <1>1 DEF In, Changed
<1>7. EntriesOK' /\ BeforeOK' /\ DeletionsOK' /\ DoneInThePast' /\ ChangesAreLogged'
  BY <1>1, <1>2, <1>3, <1>6
  DEF ApiInv, EntriesOK, BeforeOK, DeletionsOK, DeletedMeanwhile, DoneInThePast, ChangesAreLogged
<1>8. ReadersOK' /\ CacheOK'
  BY <1>1, <1>2, <1>3, <1>6, ConstantTypes DEF ApiInv, ReadersOK, CacheOK, MissesOvertaken
<1> QED
  BY <1>5, <1>7, <1>8 DEF ApiInv

LEMMA CrashInv ==
    ASSUME ApiInv, Crash
    PROVE  ApiInv'
<1>1. /\ faults' \in 0..MaxFaults /\ faults' # 0
      /\ recording' = {} /\ cache' = NoList /\ reader' = [c \in Readers |-> Idle]
      /\ UNCHANGED <<now, movies, kind, about, doneAt, missed, before, log>>
  BY ConstantTypes DEF Crash, Fault, ApiInv, TypeOK
<1>2. /\ step' \in [Requests -> Steps]
      /\ \A r \in Requests : /\ step'[r] = "answered" <=> step[r] = "answered"
                             /\ step'[r] = "unsent" <=> step[r] = "unsent"
                             /\ step'[r] \in {"changed", "answered", "interrupted"}
                                    <=> step[r] \in {"changed", "answered", "interrupted"}
  BY DEF Crash, ApiInv, TypeOK, Steps
<1>3. In("answered")' = In("answered") /\ Changed' = Changed
  BY <1>1, <1>2 DEF In, Changed
<1>4. Idle \in Gets /\ Idle.step = "idle"
  BY ConstantTypes DEF Idle, Gets
<1>5. TypeOK'
  BY <1>1, <1>2, <1>4 DEF ApiInv, TypeOK
<1>6. \A e \in log : e.request \in Requests
  BY DEF ApiInv, TypeOK, Entries
<1>7. EntriesOK' /\ BeforeOK' /\ DoneInThePast' /\ ChangesAreLogged'
  BY <1>1, <1>2, <1>3, <1>6 DEF ApiInv, EntriesOK, BeforeOK, DoneInThePast, ChangesAreLogged
<1>8. DeletionsOK'
  <2>1. \A q \in Requests : step'[q] # "found"
    BY DEF Crash, ApiInv, TypeOK, Steps
  <2>2. \A q \in missed : step'[q] \in {"changed", "answered", "interrupted"}
    BY <1>2 DEF ApiInv, TypeOK, DeletionsOK
  <2> QED
    BY <1>1, <1>3, <2>1, <2>2, DeletionsKept
<1> QED
  BY <1>1, <1>4, <1>5, <1>7, <1>8 DEF ApiInv, ReadersOK, CacheOK

LEMMA NextInv == ApiInv /\ [Next]_vars => ApiInv'
<1> SUFFICES ASSUME ApiInv, [Next]_vars PROVE ApiInv'
  OBVIOUS
<1>1. CASE \E r \in Requests, k \in Kinds : Send(r, k)
  BY <1>1, SendInv
<1>2. CASE \E r \in Requests :
            Find(r) \/ Change(r) \/ Miss(r) \/ Refuse(r) \/ Interrupt(r) \/ Handler(r)
  BY <1>2, FindInv, ChangeInv, MissInv, EndInv, HandlerInv
<1>3. CASE \E e \in recording : Record(e) \/ RecordFails(e)
  BY <1>3, RecordInv
<1>4. CASE \E c \in Readers : AnswerFromCache(c) \/ AskDatabase(c) \/ ReadAll(c) \/ CacheList(c)
  BY <1>4, ReadsInv
<1>5. CASE Tick \/ Crash
  BY <1>5, TickInv, CrashInv
<1>6. CASE UNCHANGED vars
  BY <1>6
  DEF ApiInv, TypeOK, EntriesOK, BeforeOK, DeletionsOK, DeletedMeanwhile, DoneInThePast, ReadersOK,
      CacheOK, MissesOvertaken, ChangesAreLogged, vars, request, audit, In, Changed
<1> QED
  BY <1>1, <1>2, <1>3, <1>4, <1>5, <1>6 DEF Next

LEMMA InvCorrect == Spec => []ApiInv
<1>1. Init => ApiInv
  BY InitInv
<1>2. ApiInv /\ [Next]_vars => ApiInv'
  BY NextInv
<1> QED
  BY <1>1, <1>2, PTL DEF Spec

-----------------------------------------------------------------------------
\* Every variable keeps to its type; in particular no list is cached for longer than
\* its time to live.
THEOREM TypeCorrect == Spec => []TypeOK
<1>1. ApiInv => TypeOK
  BY DEF ApiInv
<1> QED
  BY <1>1, InvCorrect, PTL

\* Every entry of the audit log is about a change that was made, or about an upload
\* that was begun; or its movie was deleted by a request that was not answered when
\* this one was sent (movies.service.ts:153, 180, 354).
THEOREM EntriesTrue == Spec => []EntriesAreTrue
<1>1. ApiInv => EntriesAreTrue
  <2> SUFFICES ASSUME ApiInv, NEW e \in recording \cup log
               PROVE  \/ kind[e.request] = "postVideo" \/ e.request \in Changed
                      \/ kind[e.request] \in Blind /\ DeletedMeanwhile(e.request)
    BY DEF EntriesAreTrue
  <2>1. e.request \in Requests /\ step[e.request] = "answered"
    BY DEF ApiInv, TypeOK, EntriesOK, Entries
  <2> QED
    BY <2>1 DEF ApiInv, DeletionsOK, Changed
<1> QED
  BY <1>1, InvCorrect, PTL

\* Requests sent one after the other are listed in that order, however long the
\* insertions of their entries take.
THEOREM LogOrdered == Spec => []LogInOrder
<1>1. ApiInv => LogInOrder
  BY DEF ApiInv, EntriesOK, LogInOrder
<1> QED
  BY <1>1, InvCorrect, PTL

\* Without faults every request that was answered has its entry, or will have it once
\* the insertion ends.
THEOREM LogComplete == Spec => []ChangesAreLogged
<1>1. ApiInv => ChangesAreLogged
  BY DEF ApiInv
<1> QED
  BY <1>1, InvCorrect, PTL

\* What a cached list does not show is newer than the time to live and the time to
\* read a list, also for handlers that clear nothing.
THEOREM ListRecent == Spec => []ListIsRecent
<1>1. ApiInv => ListIsRecent
  <2> SUFFICES ASSUME ApiInv, Cached, NEW r \in Changed, r \notin cache.shows
               PROVE  now <= doneAt[r] + MaxRead + TTL
    BY DEF ListIsRecent
  <2>1. cache # NoList /\ now <= cache.until /\ cache.until <= doneAt[r] + MaxRead + TTL
    BY DEF ApiInv, CacheOK, Cached
  <2>2. cache.until \in Nat /\ now \in Nat /\ doneAt[r] \in Nat
    BY <2>1, ConstantTypes DEF ApiInv, TypeOK, Lists, Changed
  <2> QED
    BY <2>1, <2>2, ConstantTypes
<1> QED
  BY <1>1, InvCorrect, PTL

\* A list without a change whose handler has cleared the cache was read before that.
THEOREM MissingOvertaken == Spec => []MissingOnlyIfOvertaken
<1>1. ApiInv => MissingOnlyIfOvertaken
  BY DEF ApiInv, CacheOK, Cached, MissesOvertaken, MissingOnlyIfOvertaken
<1> QED
  BY <1>1, InvCorrect, PTL

\* The audit log is true but for what two requests do to a movie that one of them
\* deletes, in order and, but for faults, complete (movies.subscriber.ts).
THEOREM LogCorrect == Spec => []LogIsTrue
<1>1. EntriesAreTrue /\ LogInOrder /\ ChangesAreLogged => LogIsTrue
  BY DEF LogIsTrue
<1> QED
  BY <1>1, EntriesTrue, LogOrdered, LogComplete, PTL

\* The cached list is recent and misses only what it may (movies.controller.ts:409-424).
THEOREM ListCorrect == Spec => []ListIsRight
<1>1. ListIsRecent /\ MissingOnlyIfOvertaken => ListIsRight
  BY DEF ListIsRight
<1> QED
  BY <1>1, ListRecent, MissingOvertaken, PTL

=============================================================================
