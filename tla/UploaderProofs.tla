--------------------------- MODULE UploaderProofs ---------------------------
(***************************************************************************)
(* The upload manager keeps its limits, loses no place and counts none     *)
(* twice, and forgets no upload that waits, for every number of uploads    *)
(* and every limit.                                                        *)
(***************************************************************************)
EXTENDS Uploader, FiniteSetTheorems, SequenceTheorems,
        WellFoundedInduction, TLAPS

-----------------------------------------------------------------------------
(* Sequences without repetition *)

NoRepeat(s) == \A i, j \in 1..Len(s) : s[i] = s[j] => i = j

\* Erasing a place of a queue erases its element.
LEMMA RemoveAtFacts ==
    ASSUME NEW S, NEW s \in Seq(S), NoRepeat(s), NEW i \in 1..Len(s)
    PROVE  /\ RemoveAt(s, i) \in Seq(S)
           /\ NoRepeat(RemoveAt(s, i))
           /\ ToSet(RemoveAt(s, i)) = ToSet(s) \ {s[i]}
<1>. DEFINE a == SubSeq(s, 1, i - 1)
            b == SubSeq(s, i + 1, Len(s))
            t == RemoveAt(s, i)
<1>1. a \in Seq(S) /\ Len(a) = i - 1 /\ \A j \in 1..(i - 1) : a[j] = s[j]
  OBVIOUS
<1>2. b \in Seq(S) /\ Len(b) = Len(s) - i /\ \A j \in 1..(Len(s) - i) : b[j] = s[i + j]
  OBVIOUS
<1>0. t = a \o b
  BY DEF RemoveAt
<1>. HIDE DEF a, b, t
<1>3. t \in Seq(S) /\ Len(t) = Len(s) - 1
  <2>1. t \in Seq(S) /\ Len(t) = Len(a) + Len(b)
    BY <1>0, <1>1, <1>2, ConcatProperties
  <2>. QED  BY <1>1, <1>2, <2>1
<1>4. ASSUME NEW j \in 1..(Len(s) - 1)
      PROVE  t[j] = IF j < i THEN s[j] ELSE s[j + 1]
  <2>1. CASE j < i
    BY <1>0, <1>1, <1>2, <2>1
  <2>2. CASE ~(j < i)
    <3>1. j - (i - 1) \in 1..(Len(s) - i) /\ i + (j - (i - 1)) = j + 1
      BY <2>2
    <3>2. t[j] = b[j - (i - 1)]
      BY <1>0, <1>1, <1>2, <2>2, <3>1
    <3>. QED  BY <1>2, <2>2, <3>1, <3>2
  <2>. QED  BY <2>1, <2>2
<1>5. NoRepeat(t)
  <2>1. SUFFICES ASSUME NEW j \in 1..(Len(s) - 1), NEW k \in 1..(Len(s) - 1), t[j] = t[k]
                 PROVE  j = k
    BY <1>3 DEF NoRepeat
  <2>. DEFINE old(l) == IF l < i THEN l ELSE l + 1
  <2>2. old(j) \in 1..Len(s) /\ old(k) \in 1..Len(s)
    OBVIOUS
  <2>3. s[old(j)] = s[old(k)]
    BY <1>4, <2>1
  <2>4. old(j) = old(k)
    BY <2>2, <2>3 DEF NoRepeat
  <2>. QED  BY <2>4
<1>6. ASSUME NEW x \in ToSet(t)  PROVE  x \in ToSet(s) \ {s[i]}
  BY <1>3, <1>4 DEF ToSet, NoRepeat
<1>7. ASSUME NEW x \in ToSet(s) \ {s[i]}  PROVE  x \in ToSet(t)
  <2>1. PICK j \in 1..Len(s) : x = s[j]
    BY DEF ToSet
  <2>2. CASE j < i
    BY <1>3, <1>4, <2>1, <2>2 DEF ToSet
  <2>3. CASE j > i
    <3>1. j - 1 \in 1..(Len(s) - 1) /\ ~(j - 1 < i) /\ (j - 1) + 1 = j
      BY <2>3
    <3>2. t[j - 1] = s[j]
      BY <1>4, <3>1
    <3>. QED  BY <1>3, <2>1, <3>1, <3>2 DEF ToSet
  <2>. QED  BY <2>1, <2>2, <2>3
<1>. QED  BY <1>3, <1>5, <1>6, <1>7 DEF t

\* Erasing an element of a queue.
LEMMA RemoveFirstFacts ==
    ASSUME NEW S, NEW s \in Seq(S), NoRepeat(s), NEW e
    PROVE  /\ RemoveFirst(s, e) \in Seq(S)
           /\ NoRepeat(RemoveFirst(s, e))
           /\ ToSet(RemoveFirst(s, e)) = ToSet(s) \ {e}
<1>1. CASE \E i \in 1..Len(s) : s[i] = e
  <2>1. PICK i \in 1..Len(s) : s[i] = e
    BY <1>1
  <2>2. {j \in 1..Len(s) : s[j] = e} = {i}
    BY <2>1 DEF NoRepeat
  <2>3. Min({i}) = i
    BY DEF Min
  <2>4. SelectInSeq(s, LAMBDA v : v = e) = i
    BY <2>2, <2>3 DEF SelectInSeq
  <2>. QED  BY <1>1, <2>1, <2>4, RemoveAtFacts DEF RemoveFirst
<1>2. CASE ~ \E i \in 1..Len(s) : s[i] = e
  BY <1>2 DEF RemoveFirst, ToSet
<1>. QED  BY <1>1, <1>2

\* Appending an element that is not in the queue.
LEMMA AppendFacts ==
    ASSUME NEW S, NEW s \in Seq(S), NoRepeat(s), NEW e \in S, e \notin ToSet(s)
    PROVE  /\ Append(s, e) \in Seq(S)
           /\ NoRepeat(Append(s, e))
           /\ ToSet(Append(s, e)) = ToSet(s) \cup {e}
<1>. DEFINE t == Append(s, e)
<1>1. t \in Seq(S) /\ Len(t) = Len(s) + 1 /\ t[Len(s) + 1] = e
  OBVIOUS
<1>2. \A j \in 1..Len(s) : t[j] = s[j]
  OBVIOUS
<1>3. \A j \in 1..Len(s) : s[j] # e
  BY DEF ToSet
<1>. HIDE DEF t
<1>4. NoRepeat(t)
  BY <1>1, <1>2, <1>3 DEF NoRepeat
<1>5. ToSet(t) = ToSet(s) \cup {e}
  <2>1. DOMAIN t = 1..(Len(s) + 1) /\ DOMAIN s = 1..Len(s)
    BY <1>1
  <2>. QED  BY <1>1, <1>2, <2>1 DEF ToSet
<1>. QED  BY <1>1, <1>4, <1>5 DEF t

\* The first n elements of a queue, and what is left when they are taken.
Taken(s, n) == {s[i] : i \in 1..n}

Left(s, n) == SubSeq(s, n + 1, Len(s))

\* Taking the first n elements of a queue.
LEMMA TakeFacts ==
    ASSUME NEW S, NEW s \in Seq(S), NoRepeat(s), NEW n \in 0..Len(s)
    PROVE  /\ Left(s, n) \in Seq(S) /\ NoRepeat(Left(s, n))
           /\ ToSet(Left(s, n)) = ToSet(s) \ Taken(s, n)
           /\ Taken(s, n) \subseteq ToSet(s)
           /\ IsFiniteSet(Taken(s, n)) /\ Cardinality(Taken(s, n)) <= n
<1>. DEFINE t == Left(s, n)
            taken == Taken(s, n)
            f == [i \in 1..n |-> s[i]]
<1>1. t \in Seq(S) /\ Len(t) = Len(s) - n /\ \A j \in 1..(Len(s) - n) : t[j] = s[n + j]
  BY DEF Left
<1>0. \A x : x \in taken <=> \E i \in 1..n : x = s[i]
  BY DEF Taken
<1>2. f \in Surjection(1..n, taken)
  BY <1>0 DEF Surjection
<1>3. IsFiniteSet(1..n) /\ Cardinality(1..n) = n
  BY FS_Interval
<1>4. IsFiniteSet(taken) /\ Cardinality(taken) <= n
  BY <1>2, <1>3, FS_Surjection
<1>. HIDE DEF f, t, taken
<1>5. NoRepeat(t)
  <2>1. SUFFICES ASSUME NEW j \in 1..(Len(s) - n), NEW k \in 1..(Len(s) - n), t[j] = t[k]
                 PROVE  j = k
    BY <1>1 DEF NoRepeat
  <2>2. n + j \in 1..Len(s) /\ n + k \in 1..Len(s) /\ s[n + j] = s[n + k]
    BY <1>1, <2>1
  <2>3. n + j = n + k
    BY <2>2 DEF NoRepeat
  <2>. QED  BY <2>3
<1>6. taken \subseteq ToSet(s)
  BY <1>0 DEF ToSet
<1>7. ASSUME NEW x \in ToSet(t)  PROVE  x \in ToSet(s) \ taken
  <2>1. PICK j \in 1..(Len(s) - n) : x = s[n + j]
    BY <1>1 DEF ToSet
  <2>2. x \notin taken
    BY <1>0, <2>1 DEF NoRepeat
  <2>. QED  BY <2>1, <2>2 DEF ToSet
<1>8. ASSUME NEW x \in ToSet(s) \ taken  PROVE  x \in ToSet(t)
  <2>1. PICK j \in 1..Len(s) : x = s[j]
    BY DEF ToSet
  <2>2. j > n
    BY <1>0, <2>1
  <2>3. j - n \in 1..(Len(s) - n) /\ n + (j - n) = j
    BY <2>2
  <2>4. t[j - n] = x
    BY <1>1, <2>1, <2>3
  <2>5. DOMAIN t = 1..(Len(s) - n)
    BY <1>1
  <2>. QED  BY <2>3, <2>4, <2>5 DEF ToSet
<1>. QED  BY <1>1, <1>4, <1>5, <1>6, <1>7, <1>8 DEF t, taken

\* The first element that passes a test is an element that passes it.
LEMMA FirstMatch ==
    ASSUME NEW s \in Seq(Requests), NEW H,
           \E r \in ToSet(s) : FileHash[r] \notin H
    PROVE  SelectInSeq(s, LAMBDA r : FileHash[r] \notin H) \in 1..Len(s)
<1>. DEFINE I == {i \in 1..Len(s) : FileHash[s[i]] \notin H}
<1>1. I # {} /\ I \subseteq Nat
  BY DEF ToSet
<1>2. \E n \in I : \A k \in I : n <= k
  <2>. DEFINE R == {ss \in Nat \X Nat : ss[1] < ss[2]}
  <2>. HIDE DEF I
  <2>1. IsWellFoundedOn(R, Nat)
    BY NatLessThanWellFounded DEF OpToRel
  <2>0. ASSUME NEW k \in Nat, NEW n \in Nat, k < n
        PROVE  <<k, n>> \in R
    BY <2>0
  <2>. HIDE DEF R
  <2>2. PICK n \in I : \A k \in I : <<k, n>> \notin R
    BY <1>1, <2>1, WFMin
  <2>3. ASSUME NEW k \in I  PROVE  n <= k
    <3>1. k \in Nat /\ n \in Nat
      BY <1>1
    <3>2. ~(k < n)
      BY <2>0, <2>2, <3>1, Zenon
    <3>. QED  BY <3>1, <3>2
  <2>. QED  BY <2>3
<1>3. Min(I) \in I
  <2>. HIDE DEF I
  <2>. QED  BY <1>2 DEF Min
<1>. QED  BY <1>1, <1>3 DEF SelectInSeq

-----------------------------------------------------------------------------
(***************************************************************************)
(* The inductive invariant, of a manager m and the state machines u.  The  *)
(* handlers compose operators on managers, so the steps of the proof are   *)
(* about such pairs; the pair of a handler's intermediate state satisfies  *)
(* the invariant too.                                                      *)
(***************************************************************************)

\* A manager whose counters are not bounded yet.
LooseManager ==
    [alive : BOOLEAN,
     requests : SUBSET Requests,
     to_hash : Seq(Requests),
     to_upload : Seq(Requests),
     uploading_hashes : SUBSET Hashes,
     enqueued_to_start_hashings : SUBSET Requests,
     enqueued_to_start_uploads : SUBSET Requests,
     current_hashings : Int,
     current_uploads : Int,
     action_token_state : {"Invalid", "Retrieving", "Error", "Valid"},
     token_current : BOOLEAN,
     token_calls : Nat,
     retry_wait : BOOLEAN,
     retry_due : BOOLEAN,
     ticks : Nat,
     starts : SUBSET Starts]

DeadManager == [NewManager EXCEPT !.alive = FALSE]

\* The count state that goes with a state: a file keeps its hashing place
\* while it waits to be uploaded.
CountOf(state) ==
    IF state \in {"Hashing", "WaitForUploadSignal"} THEN "Hashing"
    ELSE IF state \in Uploading THEN "Uploading" ELSE "None"

\* The places of upload r whose state machine is v: a queue holds an upload
\* that waits in the queue's state and is not told to start, a place is reserved
\* for a start event that will be taken, and no start event is ahead of its
\* upload.
PlacesOf(m, v, r) ==
    /\ r \in ToSet(m.to_hash) =>
         v.state = "WaitForHashSignal" /\ <<"StartHash", r>> \notin m.starts
    /\ r \in ToSet(m.to_upload) =>
         v.state = "WaitForUploadSignal" /\ <<"StartUpload", r>> \notin m.starts
    /\ <<"StartHash", r>> \in m.starts => v.state # "Initial"
    /\ <<"StartUpload", r>> \in m.starts =>
         v.state \notin {"Initial", "WaitForHashSignal", "Hashing"}
    /\ r \in m.enqueued_to_start_hashings <=>
         <<"StartHash", r>> \in m.starts /\ v.state = "WaitForHashSignal"
    /\ r \in m.enqueued_to_start_uploads <=>
         <<"StartUpload", r>> \in m.starts /\ v.state = "WaitForUploadSignal"

\* The count state follows the state, and only a hashing reads the file.
UploadOK(v) ==
    /\ v.count_state = CountOf(v.state)
    /\ "ReadNext" \in v.pending => v.state = "Hashing"

QueuesOK(m) == NoRepeat(m.to_hash) /\ NoRepeat(m.to_upload)

PlacesOK(m, u) == \A r \in Requests : PlacesOf(m, u[r], r)

CountedIn(u, c) == {r \in Requests : u[r].count_state = c}

CountsOK(m, u) ==
    /\ m.current_hashings = Cardinality(CountedIn(u, "Hashing"))
    /\ m.current_uploads = Cardinality(CountedIn(u, "Uploading"))

LimitOK(m) ==
    /\ m.current_hashings + Cardinality(m.enqueued_to_start_hashings) <= MaxHashings
    /\ m.current_uploads + Cardinality(m.enqueued_to_start_uploads) <= MaxUploads

InvOf(m, u) ==
    /\ m \in LooseManager
    /\ u \in [Requests -> Upload]
    /\ \A r \in Requests : UploadOK(u[r])
    /\ m.alive => QueuesOK(m) /\ PlacesOK(m, u) /\ CountsOK(m, u) /\ LimitOK(m)
    /\ ~m.alive => m = DeadManager

IInv == InvOf(um, up) /\ um.token_calls <= MaxTokenCalls

-----------------------------------------------------------------------------
(* What the manager's callbacks do to the parts the invariant speaks of *)

\* The parts besides the queues, and those besides the places and counters.
SamePlaces(m, n) ==
    /\ n.enqueued_to_start_hashings = m.enqueued_to_start_hashings
    /\ n.enqueued_to_start_uploads = m.enqueued_to_start_uploads
    /\ n.current_hashings = m.current_hashings
    /\ n.current_uploads = m.current_uploads

SameQueues(m, n) == n.to_hash = m.to_hash /\ n.to_upload = m.to_upload

SameEvents(m, n) == n.alive = m.alive /\ n.starts = m.starts

\* A disconnected state machine changes nothing.
LEMMA DeadCallbacks ==
    ASSUME NEW m, ~m.alive, NEW r, NEW h, NEW old, NEW new
    PROVE  /\ HandleRemoveToHash(m, r) = m
           /\ HandleAddToUpload(m, r) = m
           /\ HandleRemoveToUpload(m, r) = m
           /\ HandleComplete(m, r, h) = m
           /\ DecrementHashingCount(m) = m
           /\ DecrementUploadingCount(m) = m
           /\ IncrementHashingCount(m, r) = m
           /\ IncrementUploadingCount(m, r) = m
BY DEF Callback, HandleRemoveToHash, HandleAddToUpload, HandleRemoveToUpload,
       HandleComplete, DecrementHashingCount, DecrementUploadingCount,
       IncrementHashingCount, IncrementUploadingCount

\* Posting a Tick changes nothing else.
LEMMA EnqueueTickFacts ==
    ASSUME NEW m \in LooseManager
    PROVE  /\ EnqueueTick(m) \in LooseManager
           /\ SamePlaces(m, EnqueueTick(m))
           /\ SameQueues(m, EnqueueTick(m))
           /\ SameEvents(m, EnqueueTick(m))
<1>1. EnqueueTick(m) \in LooseManager
  BY DEF LooseManager, EnqueueTick
<1>2. SamePlaces(m, EnqueueTick(m))
  BY DEF LooseManager, EnqueueTick, SamePlaces
<1>3. SameQueues(m, EnqueueTick(m)) /\ SameEvents(m, EnqueueTick(m))
  BY DEF LooseManager, EnqueueTick, SameQueues, SameEvents
<1>. QED  BY <1>1, <1>2, <1>3

\* Replacing a queue changes nothing else.
LEMMA QueueFacts ==
    ASSUME NEW m \in LooseManager, NEW s \in Seq(Requests)
    PROVE  /\ LET n == [m EXCEPT !.to_hash = s]
              IN  /\ n \in LooseManager
                  /\ SamePlaces(m, n) /\ SameEvents(m, n)
                  /\ n.to_hash = s /\ n.to_upload = m.to_upload
           /\ LET n == [m EXCEPT !.to_upload = s]
              IN  /\ n \in LooseManager
                  /\ SamePlaces(m, n) /\ SameEvents(m, n)
                  /\ n.to_upload = s /\ n.to_hash = m.to_hash
<1>1. [m EXCEPT !.to_hash = s] \in LooseManager /\ [m EXCEPT !.to_upload = s] \in LooseManager
  BY DEF LooseManager
<1>2. /\ SamePlaces(m, [m EXCEPT !.to_hash = s])
      /\ SamePlaces(m, [m EXCEPT !.to_upload = s])
  BY DEF LooseManager, SamePlaces
<1>3. /\ SameEvents(m, [m EXCEPT !.to_hash = s])
      /\ SameEvents(m, [m EXCEPT !.to_upload = s])
  BY DEF LooseManager, SameEvents
<1>4. /\ [m EXCEPT !.to_hash = s].to_hash = s
      /\ [m EXCEPT !.to_hash = s].to_upload = m.to_upload
      /\ [m EXCEPT !.to_upload = s].to_upload = s
      /\ [m EXCEPT !.to_upload = s].to_hash = m.to_hash
  BY DEF LooseManager
<1>. QED  BY <1>1, <1>2, <1>3, <1>4

\* HandleAddToHash and HandleAddToUpload append to a queue.
LEMMA AddFacts ==
    ASSUME NEW m \in LooseManager, m.alive, NEW r \in Requests
    PROVE  /\ LET n == HandleAddToHash(m, r)
              IN  /\ n \in LooseManager
                  /\ SamePlaces(m, n) /\ SameEvents(m, n)
                  /\ n.to_hash = Append(m.to_hash, r)
                  /\ n.to_upload = m.to_upload
           /\ LET n == HandleAddToUpload(m, r)
              IN  /\ n \in LooseManager
                  /\ SamePlaces(m, n) /\ SameEvents(m, n)
                  /\ n.to_upload = Append(m.to_upload, r)
                  /\ n.to_hash = m.to_hash
<1>1. Append(m.to_hash, r) \in Seq(Requests) /\ Append(m.to_upload, r) \in Seq(Requests)
  BY DEF LooseManager
<1>. DEFINE a == [m EXCEPT !.to_hash = Append(m.to_hash, r)]
            b == [m EXCEPT !.to_upload = Append(m.to_upload, r)]
<1>2. HandleAddToHash(m, r) = EnqueueTick(a) /\ HandleAddToUpload(m, r) = EnqueueTick(b)
  BY DEF HandleAddToHash, HandleAddToUpload, Callback
<1>3. /\ a \in LooseManager /\ SamePlaces(m, a) /\ SameEvents(m, a)
      /\ a.to_hash = Append(m.to_hash, r) /\ a.to_upload = m.to_upload
      /\ b \in LooseManager /\ SamePlaces(m, b) /\ SameEvents(m, b)
      /\ b.to_upload = Append(m.to_upload, r) /\ b.to_hash = m.to_hash
  BY <1>1, QueueFacts
<1>. HIDE DEF a, b
<1>4. /\ EnqueueTick(a) \in LooseManager /\ SamePlaces(a, EnqueueTick(a))
      /\ SameQueues(a, EnqueueTick(a)) /\ SameEvents(a, EnqueueTick(a))
      /\ EnqueueTick(b) \in LooseManager /\ SamePlaces(b, EnqueueTick(b))
      /\ SameQueues(b, EnqueueTick(b)) /\ SameEvents(b, EnqueueTick(b))
  BY <1>3, EnqueueTickFacts
<1>. QED  BY <1>2, <1>3, <1>4 DEF SamePlaces, SameEvents, SameQueues

\* HandleRemoveToHash and HandleRemoveToUpload erase from a queue.
LEMMA RemoveFacts ==
    ASSUME NEW m \in LooseManager, m.alive, NEW r \in Requests,
           NoRepeat(m.to_hash), NoRepeat(m.to_upload)
    PROVE  /\ LET n == HandleRemoveToHash(m, r)
              IN  /\ n \in LooseManager
                  /\ SamePlaces(m, n) /\ SameEvents(m, n)
                  /\ NoRepeat(n.to_hash)
                  /\ ToSet(n.to_hash) = ToSet(m.to_hash) \ {r}
                  /\ n.to_upload = m.to_upload
           /\ LET n == HandleRemoveToUpload(m, r)
              IN  /\ n \in LooseManager
                  /\ SamePlaces(m, n) /\ SameEvents(m, n)
                  /\ NoRepeat(n.to_upload)
                  /\ ToSet(n.to_upload) = ToSet(m.to_upload) \ {r}
                  /\ n.to_hash = m.to_hash
<1>. DEFINE s == RemoveFirst(m.to_hash, r)
            t == RemoveFirst(m.to_upload, r)
<1>1. s \in Seq(Requests) /\ NoRepeat(s) /\ ToSet(s) = ToSet(m.to_hash) \ {r}
  BY RemoveFirstFacts DEF LooseManager
<1>2. t \in Seq(Requests) /\ NoRepeat(t) /\ ToSet(t) = ToSet(m.to_upload) \ {r}
  BY RemoveFirstFacts DEF LooseManager
<1>. DEFINE a == [m EXCEPT !.to_hash = s]
            b == [m EXCEPT !.to_upload = t]
<1>3. HandleRemoveToHash(m, r) = EnqueueTick(a) /\ HandleRemoveToUpload(m, r) = EnqueueTick(b)
  BY DEF HandleRemoveToHash, HandleRemoveToUpload, Callback
<1>. HIDE DEF s, t
<1>4. /\ a \in LooseManager /\ SamePlaces(m, a) /\ SameEvents(m, a)
      /\ a.to_hash = s /\ a.to_upload = m.to_upload
      /\ b \in LooseManager /\ SamePlaces(m, b) /\ SameEvents(m, b)
      /\ b.to_upload = t /\ b.to_hash = m.to_hash
  BY <1>1, <1>2, QueueFacts
<1>. HIDE DEF a, b
<1>5. /\ EnqueueTick(a) \in LooseManager /\ SamePlaces(a, EnqueueTick(a))
      /\ SameQueues(a, EnqueueTick(a)) /\ SameEvents(a, EnqueueTick(a))
      /\ EnqueueTick(b) \in LooseManager /\ SamePlaces(b, EnqueueTick(b))
      /\ SameQueues(b, EnqueueTick(b)) /\ SameEvents(b, EnqueueTick(b))
  BY <1>4, EnqueueTickFacts
<1>. QED  BY <1>1, <1>2, <1>3, <1>4, <1>5 DEF SamePlaces, SameEvents, SameQueues

\* The counters' callbacks.
LEMMA CounterFacts ==
    ASSUME NEW m \in LooseManager, m.alive, NEW r \in Requests
    PROVE  /\ LET n == DecrementHashingCount(m)
              IN  /\ n \in LooseManager /\ SameQueues(m, n) /\ SameEvents(m, n)
                  /\ n.current_hashings = m.current_hashings - 1
                  /\ n.current_uploads = m.current_uploads
                  /\ n.enqueued_to_start_hashings = m.enqueued_to_start_hashings
                  /\ n.enqueued_to_start_uploads = m.enqueued_to_start_uploads
           /\ LET n == DecrementUploadingCount(m)
              IN  /\ n \in LooseManager /\ SameQueues(m, n) /\ SameEvents(m, n)
                  /\ n.current_hashings = m.current_hashings
                  /\ n.current_uploads = m.current_uploads - 1
                  /\ n.enqueued_to_start_hashings = m.enqueued_to_start_hashings
                  /\ n.enqueued_to_start_uploads = m.enqueued_to_start_uploads
           /\ LET n == IncrementHashingCount(m, r)
              IN  /\ n \in LooseManager /\ SameQueues(m, n) /\ SameEvents(m, n)
                  /\ n.current_hashings = m.current_hashings + 1
                  /\ n.current_uploads = m.current_uploads
                  /\ n.enqueued_to_start_hashings = m.enqueued_to_start_hashings \ {r}
                  /\ n.enqueued_to_start_uploads = m.enqueued_to_start_uploads
           /\ LET n == IncrementUploadingCount(m, r)
              IN  /\ n \in LooseManager /\ SameQueues(m, n) /\ SameEvents(m, n)
                  /\ n.current_hashings = m.current_hashings
                  /\ n.current_uploads = m.current_uploads + 1
                  /\ n.enqueued_to_start_hashings = m.enqueued_to_start_hashings
                  /\ n.enqueued_to_start_uploads = m.enqueued_to_start_uploads \ {r}
<1>. DEFINE t == EnqueueTick(m)
            h1 == m.current_hashings - 1
            u1 == m.current_uploads - 1
            h2 == m.current_hashings + 1
            u2 == m.current_uploads + 1
            H == m.enqueued_to_start_hashings \ {r}
            U == m.enqueued_to_start_uploads \ {r}
            a == [t EXCEPT !.current_hashings = h1]
            b == [t EXCEPT !.current_uploads = u1]
            c == [m EXCEPT !.current_hashings = h2, !.enqueued_to_start_hashings = H]
            d == [m EXCEPT !.current_uploads = u2, !.enqueued_to_start_uploads = U]
<1>1. h1 \in Int /\ h2 \in Int /\ u1 \in Int /\ u2 \in Int
  BY DEF LooseManager
<1>2. H \in SUBSET Requests /\ U \in SUBSET Requests
  BY DEF LooseManager
<1>3. t \in LooseManager /\ SamePlaces(m, t) /\ SameQueues(m, t) /\ SameEvents(m, t)
  BY EnqueueTickFacts
<1>4. DecrementHashingCount(m) = a /\ DecrementUploadingCount(m) = b
  BY <1>3 DEF DecrementHashingCount, DecrementUploadingCount, Callback, SamePlaces
<1>5. IncrementHashingCount(m, r) = c /\ IncrementUploadingCount(m, r) = d
  BY DEF IncrementHashingCount, IncrementUploadingCount, Callback
<1>. HIDE DEF t, h1, u1, h2, u2, H, U
<1>6. /\ a \in LooseManager /\ SameQueues(t, a) /\ SameEvents(t, a)
      /\ a.current_hashings = h1
      /\ a.current_uploads = t.current_uploads
      /\ a.enqueued_to_start_hashings = t.enqueued_to_start_hashings
      /\ a.enqueued_to_start_uploads = t.enqueued_to_start_uploads
  <2>1. a \in LooseManager
    BY <1>1, <1>2, <1>3 DEF LooseManager
  <2>2. SameQueues(t, a) /\ SameEvents(t, a)
    BY <1>3 DEF LooseManager, SameQueues, SameEvents
  <2>3. /\ a.current_hashings = h1
        /\ a.current_uploads = t.current_uploads
        /\ a.enqueued_to_start_hashings = t.enqueued_to_start_hashings
        /\ a.enqueued_to_start_uploads = t.enqueued_to_start_uploads
    BY <1>3 DEF LooseManager
  <2>. QED  BY <2>1, <2>2, <2>3
<1>7. /\ b \in LooseManager /\ SameQueues(t, b) /\ SameEvents(t, b)
      /\ b.current_hashings = t.current_hashings
      /\ b.current_uploads = u1
      /\ b.enqueued_to_start_hashings = t.enqueued_to_start_hashings
      /\ b.enqueued_to_start_uploads = t.enqueued_to_start_uploads
  <2>1. b \in LooseManager
    BY <1>1, <1>2, <1>3 DEF LooseManager
  <2>2. SameQueues(t, b) /\ SameEvents(t, b)
    BY <1>3 DEF LooseManager, SameQueues, SameEvents
  <2>3. /\ b.current_hashings = t.current_hashings
        /\ b.current_uploads = u1
        /\ b.enqueued_to_start_hashings = t.enqueued_to_start_hashings
        /\ b.enqueued_to_start_uploads = t.enqueued_to_start_uploads
    BY <1>3 DEF LooseManager
  <2>. QED  BY <2>1, <2>2, <2>3
<1>8. /\ c \in LooseManager /\ SameQueues(m, c) /\ SameEvents(m, c)
      /\ c.current_hashings = h2
      /\ c.current_uploads = m.current_uploads
      /\ c.enqueued_to_start_hashings = H
      /\ c.enqueued_to_start_uploads = m.enqueued_to_start_uploads
  <2>1. c \in LooseManager
    BY <1>1, <1>2, <1>3 DEF LooseManager
  <2>2. SameQueues(m, c) /\ SameEvents(m, c)
    BY <1>3 DEF LooseManager, SameQueues, SameEvents
  <2>3. /\ c.current_hashings = h2
        /\ c.current_uploads = m.current_uploads
        /\ c.enqueued_to_start_hashings = H
        /\ c.enqueued_to_start_uploads = m.enqueued_to_start_uploads
    BY <1>3 DEF LooseManager
  <2>. QED  BY <2>1, <2>2, <2>3
<1>9. /\ d \in LooseManager /\ SameQueues(m, d) /\ SameEvents(m, d)
      /\ d.current_hashings = m.current_hashings
      /\ d.current_uploads = u2
      /\ d.enqueued_to_start_hashings = m.enqueued_to_start_hashings
      /\ d.enqueued_to_start_uploads = U
  <2>1. d \in LooseManager
    BY <1>1, <1>2, <1>3 DEF LooseManager
  <2>2. SameQueues(m, d) /\ SameEvents(m, d)
    BY <1>3 DEF LooseManager, SameQueues, SameEvents
  <2>3. /\ d.current_hashings = m.current_hashings
        /\ d.current_uploads = u2
        /\ d.enqueued_to_start_hashings = m.enqueued_to_start_hashings
        /\ d.enqueued_to_start_uploads = U
    BY <1>3 DEF LooseManager
  <2>. QED  BY <2>1, <2>2, <2>3
<1>. HIDE DEF a, b, c, d
<1>10. SameQueues(m, a) /\ SameEvents(m, a) /\ SameQueues(m, b) /\ SameEvents(m, b)
  BY <1>3, <1>6, <1>7 DEF SameQueues, SameEvents
<1>11. /\ a.current_uploads = m.current_uploads
       /\ b.current_hashings = m.current_hashings
       /\ a.enqueued_to_start_hashings = m.enqueued_to_start_hashings
       /\ a.enqueued_to_start_uploads = m.enqueued_to_start_uploads
       /\ b.enqueued_to_start_hashings = m.enqueued_to_start_hashings
       /\ b.enqueued_to_start_uploads = m.enqueued_to_start_uploads
  BY <1>3, <1>6, <1>7 DEF SamePlaces
<1>. QED  BY <1>4, <1>5, <1>6, <1>7, <1>8, <1>9, <1>10, <1>11
          DEF h1, u1, h2, u2, H, U

\* HandleComplete gives back reserved places.
LEMMA CompleteFacts ==
    ASSUME NEW m \in LooseManager, m.alive, NEW r \in Requests, NEW h \in BOOLEAN
    PROVE  LET n == HandleComplete(m, r, h)
           IN  /\ n \in LooseManager
               /\ SameQueues(m, n) /\ SameEvents(m, n)
               /\ n.current_hashings = m.current_hashings
               /\ n.current_uploads = m.current_uploads
               /\ n.enqueued_to_start_hashings = m.enqueued_to_start_hashings \ {r}
               /\ n.enqueued_to_start_uploads = m.enqueued_to_start_uploads \ {r}
<1>. DEFINE H == IF h THEN m.uploading_hashes \ {FileHash[r]} ELSE m.uploading_hashes
            a == [m EXCEPT !.enqueued_to_start_hashings = @ \ {r},
                           !.enqueued_to_start_uploads = @ \ {r},
                           !.requests = @ \ {r},
                           !.uploading_hashes = H]
<1>1. HandleComplete(m, r, h) = EnqueueTick(a)
  BY DEF HandleComplete, Callback, LooseManager
<1>2. H \in SUBSET Hashes
  BY DEF LooseManager
<1>. HIDE DEF H
<1>3. a \in LooseManager
  BY <1>2 DEF LooseManager
<1>4. /\ SameQueues(m, a) /\ SameEvents(m, a)
      /\ a.current_hashings = m.current_hashings
      /\ a.current_uploads = m.current_uploads
      /\ a.enqueued_to_start_hashings = m.enqueued_to_start_hashings \ {r}
      /\ a.enqueued_to_start_uploads = m.enqueued_to_start_uploads \ {r}
  BY DEF LooseManager, SameQueues, SameEvents
<1>. HIDE DEF a
<1>. QED  BY <1>1, <1>3, <1>4, EnqueueTickFacts DEF SamePlaces, SameQueues, SameEvents

\* The changes of the count state that occur.
LEMMA CountFacts ==
    ASSUME NEW m \in LooseManager, m.alive, NEW r \in Requests
    PROVE  /\ LET n == SetCountState(m, r, "None", "Hashing")
              IN  /\ n \in LooseManager /\ SameQueues(m, n) /\ SameEvents(m, n)
                  /\ n.current_hashings = m.current_hashings + 1
                  /\ n.current_uploads = m.current_uploads
                  /\ n.enqueued_to_start_hashings = m.enqueued_to_start_hashings \ {r}
                  /\ n.enqueued_to_start_uploads = m.enqueued_to_start_uploads
           /\ LET n == SetCountState(m, r, "Hashing", "Uploading")
              IN  /\ n \in LooseManager /\ SameQueues(m, n) /\ SameEvents(m, n)
                  /\ n.current_hashings = m.current_hashings - 1
                  /\ n.current_uploads = m.current_uploads + 1
                  /\ n.enqueued_to_start_hashings = m.enqueued_to_start_hashings
                  /\ n.enqueued_to_start_uploads = m.enqueued_to_start_uploads \ {r}
           /\ SetCountState(m, r, "None", "None") = m
           /\ SetCountState(m, r, "Hashing", "None") = DecrementHashingCount(m)
           /\ SetCountState(m, r, "Uploading", "None") = DecrementUploadingCount(m)
<1>. DEFINE d == DecrementHashingCount(m)
<1>1. SetCountState(m, r, "None", "Hashing") = IncrementHashingCount(m, r)
  BY DEF SetCountState
<1>2. SetCountState(m, r, "Hashing", "Uploading") = IncrementUploadingCount(d, r)
  BY DEF SetCountState
<1>3. /\ SetCountState(m, r, "None", "None") = m
      /\ SetCountState(m, r, "Hashing", "None") = DecrementHashingCount(m)
      /\ SetCountState(m, r, "Uploading", "None") = DecrementUploadingCount(m)
  BY DEF SetCountState
<1>4. /\ d \in LooseManager /\ SameQueues(m, d) /\ SameEvents(m, d)
      /\ d.current_hashings = m.current_hashings - 1
      /\ d.current_uploads = m.current_uploads
      /\ d.enqueued_to_start_hashings = m.enqueued_to_start_hashings
      /\ d.enqueued_to_start_uploads = m.enqueued_to_start_uploads
  BY CounterFacts
<1>. HIDE DEF d
<1>. DEFINE n == IncrementUploadingCount(d, r)
<1>5. d.alive
  BY <1>4 DEF SameEvents
<1>6. /\ n \in LooseManager /\ SameQueues(d, n) /\ SameEvents(d, n)
      /\ n.current_hashings = d.current_hashings
      /\ n.current_uploads = d.current_uploads + 1
      /\ n.enqueued_to_start_hashings = d.enqueued_to_start_hashings
      /\ n.enqueued_to_start_uploads = d.enqueued_to_start_uploads \ {r}
  BY <1>4, <1>5, CounterFacts
<1>. HIDE DEF n
<1>7. SameQueues(m, n) /\ SameEvents(m, n)
  BY <1>4, <1>6 DEF SameQueues, SameEvents
<1>8. SetCountState(m, r, "Hashing", "Uploading") = n
  BY <1>2 DEF n
<1>9. LET k == IncrementHashingCount(m, r)
      IN  /\ k \in LooseManager /\ SameQueues(m, k) /\ SameEvents(m, k)
          /\ k.current_hashings = m.current_hashings + 1
          /\ k.current_uploads = m.current_uploads
          /\ k.enqueued_to_start_hashings = m.enqueued_to_start_hashings \ {r}
          /\ k.enqueued_to_start_uploads = m.enqueued_to_start_uploads
  BY CounterFacts
<1>. QED  BY <1>1, <1>3, <1>4, <1>6, <1>7, <1>8, <1>9

-----------------------------------------------------------------------------
(* The invariant under the moves of one upload *)

\* How the counted uploads change when one of them changes.
LEMMA CountedStep ==
    ASSUME NEW u \in [Requests -> Upload], NEW r \in Requests, NEW v \in Upload, NEW c
    PROVE  LET before == CountedIn(u, c)
               after == CountedIn([u EXCEPT ![r] = v], c)
           IN  /\ Cardinality(before) \in Nat
               /\ u[r].count_state # c /\ v.count_state # c =>
                    Cardinality(after) = Cardinality(before)
               /\ u[r].count_state = c /\ v.count_state = c =>
                    Cardinality(after) = Cardinality(before)
               /\ u[r].count_state = c /\ v.count_state # c =>
                    Cardinality(after) = Cardinality(before) - 1
               /\ u[r].count_state # c /\ v.count_state = c =>
                    Cardinality(after) = Cardinality(before) + 1
<1>. DEFINE before == CountedIn(u, c)
            after == CountedIn([u EXCEPT ![r] = v], c)
<1>1. IsFiniteSet(before)
  BY FS_Subset, UploaderAssumption DEF CountedIn
<1>2. r \in before <=> u[r].count_state = c
  BY DEF CountedIn
<1>3. u[r].count_state # c /\ v.count_state # c => after = before
  BY DEF CountedIn
<1>4. u[r].count_state = c /\ v.count_state = c => after = before
  BY DEF CountedIn
<1>5. u[r].count_state = c /\ v.count_state # c => after = before \ {r}
  BY DEF CountedIn
<1>6. u[r].count_state # c /\ v.count_state = c => after = before \cup {r}
  BY DEF CountedIn
<1>. HIDE DEF before, after
<1>7. Cardinality(before) \in Nat
  BY <1>1, FS_CardinalityType
<1>8. r \in before => Cardinality(before \ {r}) = Cardinality(before) - 1
  BY <1>1, FS_RemoveElement
<1>9. r \notin before => Cardinality(before \cup {r}) = Cardinality(before) + 1
  BY <1>1, FS_AddElement
<1>10. /\ u[r].count_state # c /\ v.count_state # c =>
            Cardinality(after) = Cardinality(before)
       /\ u[r].count_state = c /\ v.count_state = c =>
            Cardinality(after) = Cardinality(before)
  BY <1>3, <1>4
<1>11. u[r].count_state = c /\ v.count_state # c =>
         Cardinality(after) = Cardinality(before) - 1
  BY <1>2, <1>5, <1>8
<1>12. u[r].count_state # c /\ v.count_state = c =>
         Cardinality(after) = Cardinality(before) + 1
  BY <1>2, <1>6, <1>9
<1>. QED  BY <1>7, <1>10, <1>11, <1>12 DEF before, after

\* A step that keeps the count state keeps the counts.
LEMMA CountedSame ==
    ASSUME NEW u \in [Requests -> Upload], NEW r \in Requests, NEW v \in Upload,
           v.count_state = u[r].count_state, NEW c
    PROVE  Cardinality(CountedIn([u EXCEPT ![r] = v], c)) = Cardinality(CountedIn(u, c))
<1>1. CASE u[r].count_state = c
  BY <1>1, CountedStep
<1>2. CASE u[r].count_state # c
  BY <1>2, CountedStep
<1>. QED  BY <1>1, <1>2

\* A move of upload r that leaves the places of the others alone.
LEMMA MoveInv ==
    ASSUME NEW m, NEW u, InvOf(m, u), m.alive,
           NEW r \in Requests, NEW v \in Upload, UploadOK(v),
           NEW n \in LooseManager, n.alive,
           QueuesOK(n),
           ToSet(n.to_hash) \ {r} \subseteq ToSet(m.to_hash),
           ToSet(n.to_upload) \ {r} \subseteq ToSet(m.to_upload),
           \A q \in Requests \ {r} :
              /\ <<"StartHash", q>> \in n.starts <=> <<"StartHash", q>> \in m.starts
              /\ <<"StartUpload", q>> \in n.starts <=> <<"StartUpload", q>> \in m.starts,
           n.enqueued_to_start_hashings \ {r} = m.enqueued_to_start_hashings \ {r},
           n.enqueued_to_start_uploads \ {r} = m.enqueued_to_start_uploads \ {r},
           PlacesOf(n, v, r),
           CountsOK(n, [u EXCEPT ![r] = v]),
           LimitOK(n)
    PROVE  InvOf(n, [u EXCEPT ![r] = v])
<1>. DEFINE w == [u EXCEPT ![r] = v]
<1>1. u \in [Requests -> Upload] /\ PlacesOK(m, u)
  BY DEF InvOf
<1>2. w \in [Requests -> Upload] /\ w[r] = v /\ \A q \in Requests \ {r} : w[q] = u[q]
  BY <1>1
<1>3. \A q \in Requests : UploadOK(w[q])
  BY <1>2 DEF InvOf
<1>. HIDE DEF w
<1>4. ASSUME NEW q \in Requests \ {r}  PROVE  PlacesOf(n, w[q], q)
  <2>1. PlacesOf(m, u[q], q) /\ w[q] = u[q]
    BY <1>1, <1>2 DEF PlacesOK
  <2>2. /\ q \in ToSet(n.to_hash) => q \in ToSet(m.to_hash)
        /\ q \in ToSet(n.to_upload) => q \in ToSet(m.to_upload)
        /\ q \in n.enqueued_to_start_hashings <=> q \in m.enqueued_to_start_hashings
        /\ q \in n.enqueued_to_start_uploads <=> q \in m.enqueued_to_start_uploads
    OBVIOUS
  <2>3. /\ <<"StartHash", q>> \in n.starts <=> <<"StartHash", q>> \in m.starts
        /\ <<"StartUpload", q>> \in n.starts <=> <<"StartUpload", q>> \in m.starts
    OBVIOUS
  <2>. QED  BY <2>1, <2>2, <2>3 DEF PlacesOf
<1>5. PlacesOK(n, w)
  BY <1>2, <1>4 DEF PlacesOK
<1>. QED  BY <1>2, <1>3, <1>5 DEF InvOf, w

\* Places of uploads are finitely many.
LEMMA PlacesFinite ==
    ASSUME NEW m \in LooseManager
    PROVE  /\ IsFiniteSet(m.enqueued_to_start_hashings)
           /\ IsFiniteSet(m.enqueued_to_start_uploads)
           /\ Cardinality(m.enqueued_to_start_hashings) \in Nat
           /\ Cardinality(m.enqueued_to_start_uploads) \in Nat
           /\ m.current_hashings \in Int
           /\ m.current_uploads \in Int
<1>1. /\ m.enqueued_to_start_hashings \in SUBSET Requests
      /\ m.enqueued_to_start_uploads \in SUBSET Requests
      /\ m.current_hashings \in Int /\ m.current_uploads \in Int
  BY DEF LooseManager
<1>2. /\ IsFiniteSet(m.enqueued_to_start_hashings)
      /\ IsFiniteSet(m.enqueued_to_start_uploads)
  BY <1>1, FS_Subset, UploaderAssumption
<1>. QED  BY <1>1, <1>2, FS_CardinalityType

\* Fewer places and lower counters keep the limits.
LEMMA LimitDown ==
    ASSUME NEW m \in LooseManager, NEW n \in LooseManager, LimitOK(m),
           n.current_hashings <= m.current_hashings,
           n.current_uploads <= m.current_uploads,
           n.enqueued_to_start_hashings \subseteq m.enqueued_to_start_hashings,
           n.enqueued_to_start_uploads \subseteq m.enqueued_to_start_uploads
    PROVE  LimitOK(n)
<1>1. /\ Cardinality(n.enqueued_to_start_hashings) <= Cardinality(m.enqueued_to_start_hashings)
      /\ Cardinality(n.enqueued_to_start_uploads) <= Cardinality(m.enqueued_to_start_uploads)
  BY PlacesFinite, FS_Subset
<1>2. /\ Cardinality(m.enqueued_to_start_hashings) \in Nat
      /\ Cardinality(m.enqueued_to_start_uploads) \in Nat
      /\ Cardinality(n.enqueued_to_start_hashings) \in Nat
      /\ Cardinality(n.enqueued_to_start_uploads) \in Nat
      /\ m.current_hashings \in Int /\ m.current_uploads \in Int
      /\ n.current_hashings \in Int /\ n.current_uploads \in Int
  BY PlacesFinite
<1>. QED  BY <1>1, <1>2, UploaderAssumption DEF LimitOK

\* The state machines' part of the invariant, which is all of it once the
\* manager is gone.
LEMMA DeadInv ==
    ASSUME NEW m, NEW u, InvOf(m, u), ~m.alive,
           NEW r \in Requests, NEW v \in Upload, UploadOK(v)
    PROVE  InvOf(m, [u EXCEPT ![r] = v])
<1>. DEFINE w == [u EXCEPT ![r] = v]
<1>1. u \in [Requests -> Upload] /\ \A q \in Requests : UploadOK(u[q])
  BY DEF InvOf
<1>2. w \in [Requests -> Upload] /\ \A q \in Requests : w[q] = IF q = r THEN v ELSE u[q]
  BY <1>1
<1>. HIDE DEF w
<1>3. \A q \in Requests : UploadOK(w[q])
  BY <1>1, <1>2
<1>. QED  BY <1>2, <1>3 DEF InvOf, w

\* The exit of a state takes the upload out of the queues.
LEMMA ExitFacts ==
    ASSUME NEW m, NEW u, InvOf(m, u), m.alive, NEW r \in Requests,
           NEW x, x.state = u[r].state
    PROVE  LET n == OnExit(m, r, x)
           IN  /\ n \in LooseManager /\ SamePlaces(m, n) /\ SameEvents(m, n)
               /\ QueuesOK(n)
               /\ ToSet(n.to_hash) = ToSet(m.to_hash) \ {r}
               /\ ToSet(n.to_upload) = ToSet(m.to_upload) \ {r}
<1>. DEFINE n == OnExit(m, r, x)
<1>1. /\ m \in LooseManager /\ QueuesOK(m) /\ NoRepeat(m.to_hash) /\ NoRepeat(m.to_upload)
      /\ PlacesOf(m, u[r], r)
  BY DEF InvOf, PlacesOK, QueuesOK
<1>2. /\ x.state # "WaitForHashSignal" => r \notin ToSet(m.to_hash)
      /\ x.state # "WaitForUploadSignal" => r \notin ToSet(m.to_upload)
  BY <1>1 DEF PlacesOf
<1>3. CASE x.state = "WaitForHashSignal"
  <2>1. n = HandleRemoveToHash(m, r)
    BY <1>3 DEF OnExit
  <2>. HIDE DEF n
  <2>2. /\ n \in LooseManager /\ SamePlaces(m, n) /\ SameEvents(m, n)
        /\ NoRepeat(n.to_hash)
        /\ ToSet(n.to_hash) = ToSet(m.to_hash) \ {r}
        /\ n.to_upload = m.to_upload
    BY <1>1, <2>1, RemoveFacts
  <2>3. r \notin ToSet(m.to_upload)
    BY <1>2, <1>3
  <2>. QED  BY <1>1, <2>2, <2>3 DEF QueuesOK, n
<1>4. CASE x.state = "WaitForUploadSignal"
  <2>1. n = HandleRemoveToUpload(m, r)
    BY <1>4 DEF OnExit
  <2>. HIDE DEF n
  <2>2. /\ n \in LooseManager /\ SamePlaces(m, n) /\ SameEvents(m, n)
        /\ NoRepeat(n.to_upload)
        /\ ToSet(n.to_upload) = ToSet(m.to_upload) \ {r}
        /\ n.to_hash = m.to_hash
    BY <1>1, <2>1, RemoveFacts
  <2>3. r \notin ToSet(m.to_hash)
    BY <1>2, <1>4
  <2>. QED  BY <1>1, <2>2, <2>3 DEF QueuesOK, n
<1>5. CASE x.state \notin {"WaitForHashSignal", "WaitForUploadSignal"}
  <2>1. n = m
    BY <1>5 DEF OnExit
  <2>. QED  BY <1>1, <1>2, <1>5, <2>1 DEF SamePlaces, SameEvents
<1>. QED  BY <1>3, <1>4, <1>5

\* An upload completes: CompleteWithSuccess or CompleteWithError.
LEMMA CompleteInv ==
    ASSUME NEW m, NEW u, InvOf(m, u), NEW r \in Requests,
           NEW x, x.state = u[r].state, NEW h \in BOOLEAN,
           NEW v \in Upload, v.state \in Ended, v.count_state = "None",
           "ReadNext" \notin v.pending
    PROVE  InvOf(HandleComplete(SetCountState(OnExit(m, r, x), r, u[r].count_state, "None"),
                                r, h),
                 [u EXCEPT ![r] = v])
<1>. DEFINE old == u[r].count_state
            a == OnExit(m, r, x)
            b == SetCountState(a, r, old, "None")
            n == HandleComplete(b, r, h)
            w == [u EXCEPT ![r] = v]
<1>1. /\ m \in LooseManager /\ u \in [Requests -> Upload]
      /\ old \in {"None", "Hashing", "Uploading"}
  BY DEF InvOf, Upload
<1>2. UploadOK(v)
  BY DEF UploadOK, CountOf, Ended, Uploading
<1>3. CASE ~m.alive
  <2>1. a = m
    BY <1>3, DeadCallbacks DEF OnExit
  <2>2. b = m
    BY <1>1, <1>3, <2>1, DeadCallbacks DEF SetCountState
  <2>3. n = m
    BY <1>3, <2>2, DeadCallbacks
  <2>. QED  BY <1>2, <1>3, <2>3, DeadInv
<1>4. CASE m.alive
  <2>1. /\ a \in LooseManager /\ SamePlaces(m, a) /\ SameEvents(m, a) /\ QueuesOK(a)
        /\ ToSet(a.to_hash) = ToSet(m.to_hash) \ {r}
        /\ ToSet(a.to_upload) = ToSet(m.to_upload) \ {r}
    BY <1>4, ExitFacts
  <2>2. a.alive /\ a.current_hashings \in Int /\ a.current_uploads \in Int
    BY <1>4, <2>1, PlacesFinite DEF SameEvents
  <2>. HIDE DEF a
  <2>3. /\ b \in LooseManager /\ SameQueues(a, b) /\ SameEvents(a, b)
        /\ b.current_hashings = a.current_hashings - (IF old = "Hashing" THEN 1 ELSE 0)
        /\ b.current_uploads = a.current_uploads - (IF old = "Uploading" THEN 1 ELSE 0)
        /\ b.enqueued_to_start_hashings = a.enqueued_to_start_hashings
        /\ b.enqueued_to_start_uploads = a.enqueued_to_start_uploads
    <3>1. CASE old = "None"
      <4>1. b = a
        BY <2>1, <2>2, <3>1, CountFacts
      <4>. HIDE DEF b
      <4>2. SameQueues(a, b) /\ SameEvents(a, b)
        BY <4>1 DEF SameQueues, SameEvents
      <4>3. /\ b.current_hashings = a.current_hashings - (IF old = "Hashing" THEN 1 ELSE 0)
            /\ b.current_uploads = a.current_uploads - (IF old = "Uploading" THEN 1 ELSE 0)
        BY <2>2, <3>1, <4>1
      <4>. QED  BY <2>1, <4>1, <4>2, <4>3
    <3>2. CASE old = "Hashing"
      <4>1. b = DecrementHashingCount(a)
        BY <2>1, <2>2, <3>2, CountFacts
      <4>. HIDE DEF b
      <4>2. /\ b \in LooseManager /\ SameQueues(a, b) /\ SameEvents(a, b)
            /\ b.current_hashings = a.current_hashings - 1
            /\ b.current_uploads = a.current_uploads
            /\ b.enqueued_to_start_hashings = a.enqueued_to_start_hashings
            /\ b.enqueued_to_start_uploads = a.enqueued_to_start_uploads
        BY <2>1, <2>2, <4>1, CounterFacts
      <4>. QED  BY <2>2, <3>2, <4>2
    <3>3. CASE old = "Uploading"
      <4>1. b = DecrementUploadingCount(a)
        BY <2>1, <2>2, <3>3, CountFacts
      <4>. HIDE DEF b
      <4>2. /\ b \in LooseManager /\ SameQueues(a, b) /\ SameEvents(a, b)
            /\ b.current_hashings = a.current_hashings
            /\ b.current_uploads = a.current_uploads - 1
            /\ b.enqueued_to_start_hashings = a.enqueued_to_start_hashings
            /\ b.enqueued_to_start_uploads = a.enqueued_to_start_uploads
        BY <2>1, <2>2, <4>1, CounterFacts
      <4>. QED  BY <2>2, <3>3, <4>2
    <3>. QED  BY <1>1, <3>1, <3>2, <3>3
  <2>4. b.alive
    BY <2>2, <2>3 DEF SameEvents
  <2>. HIDE DEF b
  <2>5. /\ n \in LooseManager /\ SameQueues(b, n) /\ SameEvents(b, n)
        /\ n.current_hashings = b.current_hashings
        /\ n.current_uploads = b.current_uploads
        /\ n.enqueued_to_start_hashings = b.enqueued_to_start_hashings \ {r}
        /\ n.enqueued_to_start_uploads = b.enqueued_to_start_uploads \ {r}
    BY <2>3, <2>4, CompleteFacts
  <2>. HIDE DEF n
  <2>6. /\ n.alive /\ n.starts = m.starts
        /\ n.to_hash = a.to_hash /\ n.to_upload = a.to_upload
        /\ n.enqueued_to_start_hashings = m.enqueued_to_start_hashings \ {r}
        /\ n.enqueued_to_start_uploads = m.enqueued_to_start_uploads \ {r}
    BY <2>1, <2>2, <2>3, <2>4, <2>5 DEF SameQueues, SameEvents, SamePlaces
  <2>7. /\ n.current_hashings = m.current_hashings - (IF old = "Hashing" THEN 1 ELSE 0)
        /\ n.current_uploads = m.current_uploads - (IF old = "Uploading" THEN 1 ELSE 0)
    BY <2>1, <2>3, <2>5 DEF SamePlaces
  <2>8. CountsOK(n, w)
    <3>1. CountsOK(m, u)
      BY <1>4 DEF InvOf
    <3>. DEFINE C(z, c) == Cardinality(CountedIn(z, c))
    <3>0. v.count_state # "Hashing" /\ v.count_state # "Uploading"
      OBVIOUS
    <3>. HIDE DEF w
    <3>2. /\ C(u, "Hashing") \in Nat
          /\ old = "Hashing" => C(w, "Hashing") = C(u, "Hashing") - 1
          /\ old # "Hashing" => C(w, "Hashing") = C(u, "Hashing")
      BY <1>1, <3>0, CountedStep DEF w
    <3>3. /\ C(u, "Uploading") \in Nat
          /\ old = "Uploading" => C(w, "Uploading") = C(u, "Uploading") - 1
          /\ old # "Uploading" => C(w, "Uploading") = C(u, "Uploading")
      BY <1>1, <3>0, CountedStep DEF w
    <3>4. /\ m.current_hashings = C(u, "Hashing")
          /\ m.current_uploads = C(u, "Uploading")
      BY <3>1 DEF CountsOK
    <3>5. n.current_hashings = C(w, "Hashing") /\ n.current_uploads = C(w, "Uploading")
      <4>. HIDE DEF C, old
      <4>. QED  BY <2>7, <3>2, <3>3, <3>4
    <3>. QED  BY <3>5 DEF CountsOK
  <2>9. LimitOK(n)
    <3>1. LimitOK(m) /\ m.current_hashings \in Int /\ m.current_uploads \in Int
      BY <1>1, <1>4, PlacesFinite DEF InvOf
    <3>2. n.current_hashings <= m.current_hashings /\ n.current_uploads <= m.current_uploads
      BY <2>7, <3>1
    <3>. QED  BY <1>1, <2>5, <2>6, <3>1, <3>2, LimitDown
  <2>10. PlacesOf(n, v, r)
    <3>1. PlacesOf(m, u[r], r)
      BY <1>4 DEF InvOf, PlacesOK
    <3>2. v.state \notin {"Initial", "WaitForHashSignal", "Hashing", "WaitForUploadSignal"}
      BY DEF Ended
    <3>3. r \notin ToSet(n.to_hash) /\ r \notin ToSet(n.to_upload)
      BY <2>1, <2>6
    <3>. QED  BY <2>6, <3>1, <3>2, <3>3 DEF PlacesOf
  <2>11. QueuesOK(n)
    BY <2>1, <2>6 DEF QueuesOK
  <2>12. /\ ToSet(n.to_hash) \ {r} \subseteq ToSet(m.to_hash)
         /\ ToSet(n.to_upload) \ {r} \subseteq ToSet(m.to_upload)
         /\ n.enqueued_to_start_hashings \ {r} = m.enqueued_to_start_hashings \ {r}
         /\ n.enqueued_to_start_uploads \ {r} = m.enqueued_to_start_uploads \ {r}
    BY <2>1, <2>6
  <2>13. InvOf(n, w)
    BY <1>2, <1>4, <2>5, <2>6, <2>8, <2>9, <2>10, <2>11, <2>12, MoveInv
  <2>. QED  BY <2>13 DEF n, b, a
<1>. QED  BY <1>3, <1>4

\* A step of a state machine that stays where it is, or moves between the states
\* of a running upload, tells the manager nothing.
LEMMA LocalInv ==
    ASSUME NEW m, NEW u, InvOf(m, u), NEW r \in Requests, NEW v \in Upload,
           "ReadNext" \in v.pending => v.state = "Hashing",
           v.count_state = u[r].count_state,
           v.state = u[r].state \/ (v.state \in Uploading /\ u[r].state \in Uploading)
    PROVE  InvOf(m, [u EXCEPT ![r] = v])
<1>. DEFINE w == [u EXCEPT ![r] = v]
<1>1. m \in LooseManager /\ u \in [Requests -> Upload] /\ UploadOK(u[r])
  BY DEF InvOf
<1>2. UploadOK(v)
  BY <1>1 DEF UploadOK, CountOf, Uploading
<1>3. CASE ~m.alive
  BY <1>2, <1>3, DeadInv
<1>4. CASE m.alive
  <2>1. QueuesOK(m) /\ PlacesOf(m, u[r], r) /\ CountsOK(m, u) /\ LimitOK(m)
    BY <1>4 DEF InvOf, PlacesOK
  <2>2. PlacesOf(m, v, r)
    BY <2>1 DEF PlacesOf, Uploading
  <2>. HIDE DEF w
  <2>3. \A c : Cardinality(CountedIn(w, c)) = Cardinality(CountedIn(u, c))
    BY <1>1, CountedSame DEF w
  <2>4. CountsOK(m, w)
    BY <2>1, <2>3 DEF CountsOK
  <2>5. InvOf(m, w)
    BY <1>1, <1>2, <1>4, <2>1, <2>2, <2>4, MoveInv DEF w
  <2>. QED  BY <2>5 DEF w
<1>. QED  BY <1>3, <1>4

\* The hashing has succeeded: the upload waits in to_upload_.
LEMMA HashedInv ==
    ASSUME NEW m, NEW u, InvOf(m, u), NEW r \in Requests, u[r].state = "Hashing",
           NEW v \in Upload, v.state = "WaitForUploadSignal", v.count_state = "Hashing",
           "ReadNext" \notin v.pending
    PROVE  InvOf(HandleAddToUpload(m, r), [u EXCEPT ![r] = v])
<1>. DEFINE w == [u EXCEPT ![r] = v]
            n == HandleAddToUpload(m, r)
<1>1. m \in LooseManager /\ u \in [Requests -> Upload] /\ u[r].count_state = "Hashing"
  BY DEF InvOf, UploadOK, CountOf
<1>2. UploadOK(v)
  BY DEF UploadOK, CountOf
<1>3. CASE ~m.alive
  BY <1>2, <1>3, DeadInv, DeadCallbacks
<1>4. CASE m.alive
  <2>1. /\ NoRepeat(m.to_hash) /\ NoRepeat(m.to_upload)
        /\ PlacesOf(m, u[r], r) /\ CountsOK(m, u) /\ LimitOK(m)
    BY <1>4 DEF InvOf, PlacesOK, QueuesOK
  <2>2. /\ r \notin ToSet(m.to_hash) /\ r \notin ToSet(m.to_upload)
        /\ <<"StartUpload", r>> \notin m.starts
        /\ r \notin m.enqueued_to_start_hashings
        /\ r \notin m.enqueued_to_start_uploads
    BY <2>1 DEF PlacesOf
  <2>3. /\ n \in LooseManager /\ SamePlaces(m, n) /\ SameEvents(m, n)
        /\ n.to_upload = Append(m.to_upload, r) /\ n.to_hash = m.to_hash
    BY <1>1, <1>4, AddFacts
  <2>. HIDE DEF n
  <2>4. NoRepeat(n.to_upload) /\ ToSet(n.to_upload) = ToSet(m.to_upload) \cup {r}
    <3>1. m.to_upload \in Seq(Requests)
      BY <1>1 DEF LooseManager
    <3>. QED  BY <2>1, <2>2, <2>3, <3>1, AppendFacts
  <2>5. n.alive /\ n.starts = m.starts
    BY <1>4, <2>3 DEF SameEvents
  <2>6. PlacesOf(n, v, r)
    BY <2>2, <2>3, <2>4, <2>5 DEF PlacesOf, SamePlaces
  <2>. HIDE DEF w
  <2>7. \A c : Cardinality(CountedIn(w, c)) = Cardinality(CountedIn(u, c))
    BY <1>1, CountedSame DEF w
  <2>8. CountsOK(n, w) /\ LimitOK(n)
    BY <2>1, <2>3, <2>7 DEF CountsOK, LimitOK, SamePlaces
  <2>9. QueuesOK(n)
    BY <2>1, <2>3, <2>4 DEF QueuesOK
  <2>10. /\ ToSet(n.to_hash) \ {r} \subseteq ToSet(m.to_hash)
         /\ ToSet(n.to_upload) \ {r} \subseteq ToSet(m.to_upload)
         /\ n.enqueued_to_start_hashings \ {r} = m.enqueued_to_start_hashings \ {r}
         /\ n.enqueued_to_start_uploads \ {r} = m.enqueued_to_start_uploads \ {r}
    BY <2>3, <2>4 DEF SamePlaces
  <2>11. InvOf(n, w)
    BY <1>2, <1>4, <2>3, <2>5, <2>6, <2>8, <2>9, <2>10, MoveInv DEF w
  <2>. QED  BY <2>11 DEF n, w
<1>. QED  BY <1>3, <1>4

\* Dropping a start event changes nothing else.
LEMMA DropFacts ==
    ASSUME NEW m \in LooseManager, NEW e
    PROVE  LET n == [m EXCEPT !.starts = @ \ {e}]
           IN  /\ n \in LooseManager /\ SamePlaces(m, n) /\ SameQueues(m, n)
               /\ n.alive = m.alive /\ n.starts = m.starts \ {e}
<1>. DEFINE n == [m EXCEPT !.starts = @ \ {e}]
<1>1. n \in LooseManager
  BY DEF LooseManager
<1>2. SamePlaces(m, n) /\ SameQueues(m, n)
  BY DEF LooseManager, SamePlaces, SameQueues
<1>3. n.alive = m.alive /\ n.starts = m.starts \ {e}
  BY DEF LooseManager
<1>. QED  BY <1>1, <1>2, <1>3

\* A start event that comes after the end of its upload is ignored.
LEMMA DropInv ==
    ASSUME NEW m, NEW u, InvOf(m, u), m.alive, NEW r \in Requests,
           u[r].state \in Ended, NEW k \in {"StartHash", "StartUpload"}
    PROVE  InvOf([m EXCEPT !.starts = @ \ {<<k, r>>}], u)
<1>. DEFINE n == [m EXCEPT !.starts = @ \ {<<k, r>>}]
            w == [u EXCEPT ![r] = u[r]]
<1>1. /\ m \in LooseManager /\ u \in [Requests -> Upload]
      /\ QueuesOK(m) /\ PlacesOf(m, u[r], r) /\ CountsOK(m, u) /\ LimitOK(m)
      /\ UploadOK(u[r])
  BY DEF InvOf, PlacesOK
<1>2. /\ n \in LooseManager /\ SamePlaces(m, n) /\ SameQueues(m, n)
      /\ n.alive = m.alive /\ n.starts = m.starts \ {<<k, r>>}
  BY <1>1, DropFacts
<1>3. w = u
  BY <1>1
<1>. HIDE DEF n, w
<1>4. QueuesOK(n) /\ CountsOK(n, w) /\ LimitOK(n)
  BY <1>1, <1>2, <1>3 DEF QueuesOK, CountsOK, LimitOK, SamePlaces, SameQueues
<1>5. PlacesOf(n, u[r], r)
  BY <1>1, <1>2 DEF PlacesOf, SamePlaces, SameQueues, Ended
<1>6. /\ ToSet(n.to_hash) = ToSet(m.to_hash)
      /\ ToSet(n.to_upload) = ToSet(m.to_upload)
      /\ n.enqueued_to_start_hashings = m.enqueued_to_start_hashings
      /\ n.enqueued_to_start_uploads = m.enqueued_to_start_uploads
  BY <1>2 DEF SamePlaces, SameQueues
<1>7. \A q \in Requests \ {r} :
        /\ <<"StartHash", q>> \in n.starts <=> <<"StartHash", q>> \in m.starts
        /\ <<"StartUpload", q>> \in n.starts <=> <<"StartUpload", q>> \in m.starts
  BY <1>2
<1>8. InvOf(n, w)
  BY <1>1, <1>2, <1>4, <1>5, <1>6, <1>7, MoveInv DEF w
<1>. QED  BY <1>3, <1>8 DEF n

\* The start event of a hashing is taken: the reserved place becomes a running
\* hashing.
LEMMA TakeHashInv ==
    ASSUME NEW m, NEW u, InvOf(m, u), m.alive, NEW r \in Requests,
           <<"StartHash", r>> \in m.starts, u[r].state = "WaitForHashSignal",
           NEW v \in Upload, v.state = "Hashing", v.count_state = "Hashing"
    PROVE  InvOf(SetCountState(
                    HandleRemoveToHash([m EXCEPT !.starts = @ \ {<<"StartHash", r>>}], r),
                    r, "None", "Hashing"),
                 [u EXCEPT ![r] = v])
<1>. DEFINE d == [m EXCEPT !.starts = @ \ {<<"StartHash", r>>}]
            e == HandleRemoveToHash(d, r)
            n == SetCountState(e, r, "None", "Hashing")
            w == [u EXCEPT ![r] = v]
<1>1. /\ m \in LooseManager /\ u \in [Requests -> Upload]
      /\ NoRepeat(m.to_hash) /\ NoRepeat(m.to_upload)
      /\ PlacesOf(m, u[r], r) /\ CountsOK(m, u) /\ LimitOK(m)
      /\ u[r].count_state = "None"
  BY DEF InvOf, UploadOK, PlacesOK, QueuesOK, CountOf, Uploading
<1>2. UploadOK(v)
  BY DEF UploadOK, CountOf
<1>3. /\ d \in LooseManager /\ SamePlaces(m, d) /\ SameQueues(m, d)
      /\ d.alive /\ d.starts = m.starts \ {<<"StartHash", r>>}
  BY <1>1, DropFacts
<1>. HIDE DEF d
<1>4. NoRepeat(d.to_hash) /\ NoRepeat(d.to_upload)
  BY <1>1, <1>3 DEF SameQueues
<1>5. /\ e \in LooseManager /\ SamePlaces(d, e) /\ SameEvents(d, e)
      /\ NoRepeat(e.to_hash)
      /\ ToSet(e.to_hash) = ToSet(d.to_hash) \ {r}
      /\ e.to_upload = d.to_upload
  BY <1>3, <1>4, RemoveFacts
<1>. HIDE DEF e
<1>6. e.alive
  BY <1>3, <1>5 DEF SameEvents
<1>7. /\ n \in LooseManager /\ SameQueues(e, n) /\ SameEvents(e, n)
      /\ n.current_hashings = e.current_hashings + 1
      /\ n.current_uploads = e.current_uploads
      /\ n.enqueued_to_start_hashings = e.enqueued_to_start_hashings \ {r}
      /\ n.enqueued_to_start_uploads = e.enqueued_to_start_uploads
  BY <1>5, <1>6, CountFacts
<1>. HIDE DEF n
<1>8. /\ n.alive /\ n.starts = m.starts \ {<<"StartHash", r>>}
      /\ ToSet(n.to_hash) = ToSet(m.to_hash) \ {r}
      /\ n.to_upload = m.to_upload
      /\ NoRepeat(n.to_hash)
  BY <1>3, <1>5, <1>6, <1>7 DEF SameQueues, SameEvents
<1>9. /\ n.current_hashings = m.current_hashings + 1
      /\ n.current_uploads = m.current_uploads
      /\ n.enqueued_to_start_hashings = m.enqueued_to_start_hashings \ {r}
      /\ n.enqueued_to_start_uploads = m.enqueued_to_start_uploads
  BY <1>3, <1>5, <1>7 DEF SamePlaces
<1>10. PlacesOf(n, v, r)
  BY <1>1, <1>8, <1>9 DEF PlacesOf
<1>11. CountsOK(n, w)
  <2>1. u[r].count_state # "Hashing" /\ u[r].count_state # "Uploading"
    BY <1>1
  <2>2. v.count_state = "Hashing" /\ v.count_state # "Uploading"
    OBVIOUS
  <2>. HIDE DEF w
  <2>3. Cardinality(CountedIn(w, "Hashing")) = Cardinality(CountedIn(u, "Hashing")) + 1
    BY <1>1, <2>1, <2>2, CountedStep DEF w
  <2>4. Cardinality(CountedIn(w, "Uploading")) = Cardinality(CountedIn(u, "Uploading"))
    BY <1>1, <2>1, <2>2, CountedStep DEF w
  <2>. QED  BY <1>1, <1>9, <2>3, <2>4 DEF CountsOK
<1>12. LimitOK(n)
  <2>. DEFINE E == m.enqueued_to_start_hashings
  <2>1. r \in E
    BY <1>1 DEF PlacesOf
  <2>2. IsFiniteSet(E) /\ Cardinality(E) \in Nat /\ m.current_hashings \in Int
    BY <1>1, PlacesFinite
  <2>. HIDE DEF E
  <2>3. Cardinality(E \ {r}) = Cardinality(E) - 1
    BY <2>1, <2>2, FS_RemoveElement
  <2>4. n.current_hashings + Cardinality(E \ {r}) = m.current_hashings + Cardinality(E)
    BY <1>9, <2>2, <2>3
  <2>. QED  BY <1>1, <1>9, <2>4 DEF LimitOK, E
<1>13. QueuesOK(n)
  BY <1>1, <1>8 DEF QueuesOK
<1>14. /\ ToSet(n.to_hash) \ {r} \subseteq ToSet(m.to_hash)
       /\ ToSet(n.to_upload) \ {r} \subseteq ToSet(m.to_upload)
       /\ n.enqueued_to_start_hashings \ {r} = m.enqueued_to_start_hashings \ {r}
       /\ n.enqueued_to_start_uploads \ {r} = m.enqueued_to_start_uploads \ {r}
  BY <1>8, <1>9
<1>15. \A q \in Requests \ {r} :
        /\ <<"StartHash", q>> \in n.starts <=> <<"StartHash", q>> \in m.starts
        /\ <<"StartUpload", q>> \in n.starts <=> <<"StartUpload", q>> \in m.starts
  BY <1>8
<1>. HIDE DEF w
<1>16. InvOf(n, w)
  BY <1>2, <1>7, <1>8, <1>10, <1>11, <1>12, <1>13, <1>14, <1>15, MoveInv DEF w
<1>. QED  BY <1>16 DEF n, e, d, w

\* The start event of an upload is taken: the upload gives back its hashing
\* place and the reserved place becomes a running upload.
LEMMA TakeUploadInv ==
    ASSUME NEW m, NEW u, InvOf(m, u), m.alive, NEW r \in Requests,
           <<"StartUpload", r>> \in m.starts, u[r].state = "WaitForUploadSignal",
           NEW v \in Upload, v.state \in Uploading, v.count_state = "Uploading",
           "ReadNext" \notin v.pending
    PROVE  InvOf(SetCountState(
                    HandleRemoveToUpload([m EXCEPT !.starts = @ \ {<<"StartUpload", r>>}], r),
                    r, u[r].count_state, "Uploading"),
                 [u EXCEPT ![r] = v])
<1>. DEFINE d == [m EXCEPT !.starts = @ \ {<<"StartUpload", r>>}]
            e == HandleRemoveToUpload(d, r)
            n == SetCountState(e, r, "Hashing", "Uploading")
            w == [u EXCEPT ![r] = v]
<1>1. /\ m \in LooseManager /\ u \in [Requests -> Upload]
      /\ NoRepeat(m.to_hash) /\ NoRepeat(m.to_upload)
      /\ PlacesOf(m, u[r], r) /\ CountsOK(m, u) /\ LimitOK(m)
      /\ u[r].count_state = "Hashing"
  BY DEF InvOf, UploadOK, PlacesOK, QueuesOK, CountOf, Uploading
<1>2. UploadOK(v)
  BY DEF UploadOK, CountOf, Uploading
<1>3. /\ d \in LooseManager /\ SamePlaces(m, d) /\ SameQueues(m, d)
      /\ d.alive /\ d.starts = m.starts \ {<<"StartUpload", r>>}
  BY <1>1, DropFacts
<1>. HIDE DEF d
<1>4. NoRepeat(d.to_hash) /\ NoRepeat(d.to_upload)
  BY <1>1, <1>3 DEF SameQueues
<1>5. /\ e \in LooseManager /\ SamePlaces(d, e) /\ SameEvents(d, e)
      /\ NoRepeat(e.to_upload)
      /\ ToSet(e.to_upload) = ToSet(d.to_upload) \ {r}
      /\ e.to_hash = d.to_hash
  BY <1>3, <1>4, RemoveFacts
<1>. HIDE DEF e
<1>6. e.alive
  BY <1>3, <1>5 DEF SameEvents
<1>7. /\ n \in LooseManager /\ SameQueues(e, n) /\ SameEvents(e, n)
      /\ n.current_hashings = e.current_hashings - 1
      /\ n.current_uploads = e.current_uploads + 1
      /\ n.enqueued_to_start_hashings = e.enqueued_to_start_hashings
      /\ n.enqueued_to_start_uploads = e.enqueued_to_start_uploads \ {r}
  BY <1>5, <1>6, CountFacts
<1>. HIDE DEF n
<1>8. /\ n.alive /\ n.starts = m.starts \ {<<"StartUpload", r>>}
      /\ ToSet(n.to_upload) = ToSet(m.to_upload) \ {r}
      /\ n.to_hash = m.to_hash
      /\ NoRepeat(n.to_upload)
  BY <1>3, <1>5, <1>6, <1>7 DEF SameQueues, SameEvents
<1>9. /\ n.current_hashings = m.current_hashings - 1
      /\ n.current_uploads = m.current_uploads + 1
      /\ n.enqueued_to_start_hashings = m.enqueued_to_start_hashings
      /\ n.enqueued_to_start_uploads = m.enqueued_to_start_uploads \ {r}
  BY <1>3, <1>5, <1>7 DEF SamePlaces
<1>10. PlacesOf(n, v, r)
  <2>1. v.state \notin {"Initial", "WaitForHashSignal", "Hashing", "WaitForUploadSignal"}
    BY DEF Uploading
  <2>. QED  BY <1>1, <1>8, <1>9, <2>1 DEF PlacesOf
<1>11. CountsOK(n, w)
  <2>1. u[r].count_state = "Hashing" /\ u[r].count_state # "Uploading"
    BY <1>1
  <2>2. v.count_state # "Hashing" /\ v.count_state = "Uploading"
    OBVIOUS
  <2>. HIDE DEF w
  <2>3. Cardinality(CountedIn(w, "Hashing")) = Cardinality(CountedIn(u, "Hashing")) - 1
    BY <1>1, <2>1, <2>2, CountedStep DEF w
  <2>4. Cardinality(CountedIn(w, "Uploading")) = Cardinality(CountedIn(u, "Uploading")) + 1
    BY <1>1, <2>1, <2>2, CountedStep DEF w
  <2>. QED  BY <1>1, <1>9, <2>3, <2>4 DEF CountsOK
<1>12. LimitOK(n)
  <2>. DEFINE E == m.enqueued_to_start_uploads
              H == Cardinality(m.enqueued_to_start_hashings)
  <2>1. r \in E
    BY <1>1 DEF PlacesOf
  <2>2. /\ IsFiniteSet(E) /\ Cardinality(E) \in Nat /\ H \in Nat
        /\ m.current_uploads \in Int /\ m.current_hashings \in Int
    BY <1>1, PlacesFinite
  <2>3. m.current_hashings + H <= MaxHashings
    BY <1>1 DEF LimitOK
  <2>. HIDE DEF E, H
  <2>4. Cardinality(E \ {r}) = Cardinality(E) - 1
    BY <2>1, <2>2, FS_RemoveElement
  <2>5. n.current_uploads + Cardinality(E \ {r}) = m.current_uploads + Cardinality(E)
    BY <1>9, <2>2, <2>4
  <2>6. n.current_hashings + H <= MaxHashings
    BY <1>9, <2>2, <2>3, UploaderAssumption
  <2>. QED  BY <1>1, <1>9, <2>5, <2>6 DEF LimitOK, E, H
<1>13. QueuesOK(n)
  BY <1>1, <1>8 DEF QueuesOK
<1>14. /\ ToSet(n.to_hash) \ {r} \subseteq ToSet(m.to_hash)
       /\ ToSet(n.to_upload) \ {r} \subseteq ToSet(m.to_upload)
       /\ n.enqueued_to_start_hashings \ {r} = m.enqueued_to_start_hashings \ {r}
       /\ n.enqueued_to_start_uploads \ {r} = m.enqueued_to_start_uploads \ {r}
  BY <1>8, <1>9
<1>15. \A q \in Requests \ {r} :
        /\ <<"StartHash", q>> \in n.starts <=> <<"StartHash", q>> \in m.starts
        /\ <<"StartUpload", q>> \in n.starts <=> <<"StartUpload", q>> \in m.starts
  BY <1>8
<1>. HIDE DEF w
<1>16. InvOf(n, w)
  BY <1>2, <1>7, <1>8, <1>10, <1>11, <1>12, <1>13, <1>14, <1>15, MoveInv DEF w
<1>. QED  BY <1>1, <1>16 DEF n, e, d, w

-----------------------------------------------------------------------------
(* The invariant under the steps of the manager *)

\* Ticks, the token and the retry timer are no part of it.
LEMMA MinorInv ==
    ASSUME NEW m, NEW u, InvOf(m, u), m.alive, NEW n \in LooseManager,
           SamePlaces(m, n), SameQueues(m, n), SameEvents(m, n)
    PROVE  InvOf(n, u)
<1>1. QueuesOK(m) /\ PlacesOK(m, u) /\ CountsOK(m, u) /\ LimitOK(m)
  BY DEF InvOf
<1>2. QueuesOK(n) /\ CountsOK(n, u) /\ LimitOK(n)
  BY <1>1 DEF QueuesOK, CountsOK, LimitOK, SamePlaces, SameQueues
<1>3. PlacesOK(n, u)
  BY <1>1 DEF PlacesOK, PlacesOf, SamePlaces, SameQueues, SameEvents
<1>4. n.alive
  BY DEF SameEvents
<1>. QED  BY <1>2, <1>3, <1>4 DEF InvOf

\* Tick_StartUploads starts the first upload that may start: a free place is
\* reserved for it.
LEMMA StartFirstInv ==
    ASSUME NEW m, NEW u, InvOf(m, u), m.alive, CanUploadMore(m), Startable(m) # {}
    PROVE  InvOf(StartFirstUpload(m), u) /\ StartFirstUpload(m).token_calls = m.token_calls
<1>. DEFINE i == SelectInSeq(m.to_upload, LAMBDA r : FileHash[r] \notin m.uploading_hashes)
            r == m.to_upload[i]
            s == RemoveAt(m.to_upload, i)
            H == m.uploading_hashes \cup {FileHash[r]}
            E == m.enqueued_to_start_uploads \cup {r}
            P == m.starts \cup {<<"StartUpload", r>>}
            n == [m EXCEPT !.to_upload = s, !.uploading_hashes = H,
                           !.enqueued_to_start_uploads = E, !.starts = P]
            w == [u EXCEPT ![r] = u[r]]
<1>1. /\ m \in LooseManager /\ u \in [Requests -> Upload]
      /\ NoRepeat(m.to_hash) /\ NoRepeat(m.to_upload)
      /\ PlacesOK(m, u) /\ CountsOK(m, u) /\ LimitOK(m)
  BY DEF InvOf, QueuesOK
<1>2. StartFirstUpload(m) = n
  BY DEF StartFirstUpload
<1>3. m.to_upload \in Seq(Requests) /\ \E q \in ToSet(m.to_upload) : FileHash[q] \notin m.uploading_hashes
  BY <1>1 DEF LooseManager, Startable
<1>4. i \in 1..Len(m.to_upload)
  BY <1>3, FirstMatch DEF SelectInSeq
<1>. HIDE DEF i
<1>5. /\ r \in Requests /\ r \in ToSet(m.to_upload)
      /\ s \in Seq(Requests) /\ NoRepeat(s) /\ ToSet(s) = ToSet(m.to_upload) \ {r}
  <2>1. r \in Requests /\ r \in ToSet(m.to_upload)
    BY <1>3, <1>4 DEF ToSet
  <2>. QED  BY <1>1, <1>3, <1>4, <2>1, RemoveAtFacts
<1>. HIDE DEF r, s
<1>6. H \in SUBSET Hashes /\ E \in SUBSET Requests /\ P \in SUBSET Starts
  BY <1>1, <1>5, UploaderAssumption DEF LooseManager, Starts
<1>. HIDE DEF H, E, P
<1>7. n \in LooseManager
  BY <1>1, <1>5, <1>6 DEF LooseManager
<1>8. /\ n.alive /\ n.starts = P /\ n.to_hash = m.to_hash /\ n.to_upload = s
      /\ n.current_hashings = m.current_hashings
      /\ n.current_uploads = m.current_uploads
      /\ n.enqueued_to_start_hashings = m.enqueued_to_start_hashings
      /\ n.enqueued_to_start_uploads = E
      /\ n.token_calls = m.token_calls
  BY <1>1 DEF LooseManager
<1>. HIDE DEF n
<1>9. w = u /\ u[r] \in Upload /\ UploadOK(u[r])
  BY <1>1, <1>5 DEF InvOf
<1>. HIDE DEF w
<1>10. PlacesOf(m, u[r], r)
  BY <1>1, <1>5 DEF PlacesOK
<1>11. PlacesOf(n, u[r], r)
  BY <1>5, <1>8, <1>10 DEF PlacesOf, P, E
<1>12. CountsOK(n, w)
  BY <1>1, <1>8, <1>9 DEF CountsOK
<1>13. LimitOK(n)
  <2>. DEFINE F == m.enqueued_to_start_uploads
  <2>1. /\ IsFiniteSet(F) /\ Cardinality(F) \in Nat /\ m.current_uploads \in Int
        /\ m.current_uploads + Cardinality(F) < MaxUploads
    BY <1>1, PlacesFinite DEF CanUploadMore
  <2>2. r \notin F
    BY <1>5, <1>10 DEF PlacesOf
  <2>3. E = F \cup {r}
    BY DEF E
  <2>. HIDE DEF F
  <2>4. Cardinality(E) = Cardinality(F) + 1
    BY <2>1, <2>2, <2>3, FS_AddElement
  <2>5. m.current_uploads + Cardinality(E) <= MaxUploads
    BY <2>1, <2>4, UploaderAssumption
  <2>. QED  BY <1>1, <1>8, <2>5 DEF LimitOK
<1>14. QueuesOK(n)
  BY <1>1, <1>5, <1>8 DEF QueuesOK
<1>15. /\ ToSet(n.to_hash) \ {r} \subseteq ToSet(m.to_hash)
       /\ ToSet(n.to_upload) \ {r} \subseteq ToSet(m.to_upload)
       /\ n.enqueued_to_start_hashings \ {r} = m.enqueued_to_start_hashings \ {r}
       /\ n.enqueued_to_start_uploads \ {r} = m.enqueued_to_start_uploads \ {r}
  BY <1>5, <1>8 DEF E
<1>16. \A q \in Requests \ {r} :
        /\ <<"StartHash", q>> \in n.starts <=> <<"StartHash", q>> \in m.starts
        /\ <<"StartUpload", q>> \in n.starts <=> <<"StartUpload", q>> \in m.starts
  BY <1>8 DEF P
<1>17. InvOf(n, w)
  BY <1>5, <1>7, <1>8, <1>9, <1>11, <1>12, <1>13, <1>14, <1>15, <1>16, MoveInv DEF w
<1>. QED  BY <1>2, <1>8, <1>9, <1>17

\* Asking for the token.
LEMMA RequestFacts ==
    ASSUME NEW m \in LooseManager
    PROVE  LET n == RequestActionToken(m)
           IN  /\ n \in LooseManager
               /\ SamePlaces(m, n) /\ SameQueues(m, n) /\ SameEvents(m, n)
<1>. DEFINE c == m.token_calls + 1
            n == [m EXCEPT !.action_token_state = "Retrieving", !.token_calls = c]
<1>0. c \in Nat
  BY DEF LooseManager
<1>. HIDE DEF c
<1>1. n \in LooseManager
  BY <1>0 DEF LooseManager
<1>2. SamePlaces(m, n) /\ SameQueues(m, n)
  BY DEF LooseManager, SamePlaces, SameQueues
<1>3. SameEvents(m, n)
  BY DEF LooseManager, SameEvents
<1>. HIDE DEF n
<1>4. SamePlaces(m, m) /\ SameQueues(m, m) /\ SameEvents(m, m)
  BY DEF SamePlaces, SameQueues, SameEvents
<1>5. RequestActionToken(m) \in {m, n}
  BY DEF RequestActionToken, n, c
<1>. QED  BY <1>1, <1>2, <1>3, <1>4, <1>5

\* Tick_StartHashings reserves free places for the first uploads of to_hash_.
LEMMA StartHashingsInv ==
    ASSUME NEW m, NEW u, InvOf(m, u), m.alive
    PROVE  /\ InvOf(Tick_StartHashings(m), u)
           /\ Tick_StartHashings(m).token_calls = m.token_calls
<1>. DEFINE h == m.to_hash
            free == FreeHashings(m)
            k == IF free <= 0 THEN 0
                 ELSE IF free < Len(h) THEN free ELSE Len(h)
            T == Taken(h, k)
            s == Left(h, k)
            F == m.enqueued_to_start_hashings
            E == F \cup T
            P == m.starts \cup ({"StartHash"} \X T)
            n == [m EXCEPT !.to_hash = s, !.enqueued_to_start_hashings = E, !.starts = P]
<1>1. /\ m \in LooseManager /\ u \in [Requests -> Upload]
      /\ NoRepeat(m.to_hash) /\ NoRepeat(m.to_upload)
      /\ PlacesOK(m, u) /\ CountsOK(m, u) /\ LimitOK(m)
  BY DEF InvOf, QueuesOK
<1>2. Tick_StartHashings(m) = n
  BY DEF Tick_StartHashings, Taken, Left
<1>3. /\ IsFiniteSet(F) /\ Cardinality(F) \in Nat /\ m.current_hashings \in Int
      /\ m.current_hashings + Cardinality(F) <= MaxHashings
  BY <1>1, PlacesFinite DEF LimitOK
<1>4. h \in Seq(Requests) /\ NoRepeat(h)
  BY <1>1 DEF LooseManager
<1>5. /\ k \in 0..Len(h)
      /\ m.current_hashings + Cardinality(F) + k <= MaxHashings
  <2>1. free = MaxHashings - (m.current_hashings + Cardinality(F))
    BY DEF FreeHashings
  <2>2. Len(h) \in Nat
    BY <1>4
  <2>. HIDE DEF free, F
  <2>. QED  BY <1>3, <2>1, <2>2, UploaderAssumption
<1>. HIDE DEF k, h
<1>6. /\ s \in Seq(Requests) /\ NoRepeat(s)
      /\ ToSet(s) = ToSet(h) \ T
      /\ T \subseteq ToSet(h)
      /\ IsFiniteSet(T) /\ Cardinality(T) <= k
  BY <1>4, <1>5, TakeFacts
<1>7. T \subseteq Requests
  <2>1. ToSet(h) \subseteq Requests
    BY <1>4 DEF ToSet
  <2>. QED  BY <1>6, <2>1
<1>. HIDE DEF s, T
<1>8. E \in SUBSET Requests /\ P \in SUBSET Starts
  BY <1>1, <1>7 DEF LooseManager, Starts
<1>. HIDE DEF E, P
<1>9. n \in LooseManager
  BY <1>1, <1>6, <1>8 DEF LooseManager
<1>10. /\ n.alive /\ n.starts = P /\ n.to_hash = s /\ n.to_upload = m.to_upload
       /\ n.current_hashings = m.current_hashings
       /\ n.current_uploads = m.current_uploads
       /\ n.enqueued_to_start_hashings = E
       /\ n.enqueued_to_start_uploads = m.enqueued_to_start_uploads
       /\ n.token_calls = m.token_calls
  BY <1>1 DEF LooseManager
<1>. HIDE DEF n
<1>11. QueuesOK(n) /\ CountsOK(n, u)
  BY <1>1, <1>6, <1>10 DEF QueuesOK, CountsOK
<1>12. LimitOK(n)
  <2>. HIDE DEF F
  <2>1. /\ IsFiniteSet(F \cap T) /\ Cardinality(F \cap T) \in Nat
        /\ Cardinality(T) \in Nat
    BY <1>3, <1>6, FS_Intersection, FS_CardinalityType
  <2>2. Cardinality(E) = Cardinality(F) + Cardinality(T) - Cardinality(F \cap T)
    BY <1>3, <1>6, FS_Union DEF E
  <2>3. Cardinality(E) <= Cardinality(F) + k
    BY <1>3, <1>5, <1>6, <2>1, <2>2
  <2>4. Cardinality(E) \in Int
    BY <1>3, <2>1, <2>2
  <2>5. m.current_hashings + Cardinality(E) <= MaxHashings
    BY <1>3, <1>5, <2>3, <2>4, UploaderAssumption
  <2>. QED  BY <1>1, <1>10, <2>5 DEF LimitOK
<1>13. ASSUME NEW q \in Requests  PROVE  PlacesOf(n, u[q], q)
  <2>1. PlacesOf(m, u[q], q)
    BY <1>1 DEF PlacesOK
  <2>2. /\ <<"StartHash", q>> \in P <=> <<"StartHash", q>> \in m.starts \/ q \in T
        /\ <<"StartUpload", q>> \in P <=> <<"StartUpload", q>> \in m.starts
        /\ q \in E <=> q \in F \/ q \in T
    BY DEF P, E
  <2>3. q \in T => q \in ToSet(h)
    BY <1>6
  <2>4. q \in ToSet(s) => q \in ToSet(h) /\ q \notin T
    BY <1>6
  <2>. QED  BY <1>10, <2>1, <2>2, <2>3, <2>4 DEF PlacesOf, h
<1>14. InvOf(n, u)
  BY <1>9, <1>10, <1>11, <1>12, <1>13 DEF InvOf, PlacesOK
<1>. QED  BY <1>2, <1>10, <1>14

\* Tick.  With a valid token it asks for none.
LEMMA TickInv ==
    ASSUME NEW m, NEW u, InvOf(m, u), m.alive
    PROVE  /\ InvOf(Tick(m), u)
           /\ m.action_token_state = "Valid" /\ m.token_current =>
                Tick(m).token_calls = m.token_calls
<1>. DEFINE n == Tick_StartUploads(m)
<1>1. m \in LooseManager
  BY DEF InvOf
<1>2. /\ InvOf(n, u) /\ n.alive
      /\ m.action_token_state = "Valid" /\ m.token_current => n.token_calls = m.token_calls
  <2>1. CASE n = m
    BY <2>1
  <2>2. CASE /\ n = RequestActionToken(m)
             /\ m.action_token_state # "Valid" \/ ~m.token_current
    <3>1. /\ n \in LooseManager /\ SamePlaces(m, n)
          /\ SameQueues(m, n) /\ SameEvents(m, n)
      BY <1>1, <2>2, RequestFacts
    <3>. HIDE DEF n
    <3>2. n.alive
      BY <3>1 DEF SameEvents
    <3>. QED  BY <2>2, <3>1, <3>2, MinorInv
  <2>3. CASE n = StartFirstUpload(m) /\ CanUploadMore(m) /\ Startable(m) # {}
    <3>1. InvOf(n, u) /\ n.token_calls = m.token_calls
      BY <2>3, StartFirstInv
    <3>2. n.alive
      <4>1. StartFirstUpload(m).alive
        BY <1>1 DEF StartFirstUpload, LooseManager
      <4>. QED  BY <2>3, <4>1
    <3>. QED  BY <3>1, <3>2
  <2>. QED  BY <2>1, <2>2, <2>3 DEF Tick_StartUploads
<1>3. Tick(m) = Tick_StartHashings(n)
  BY DEF Tick
<1>. HIDE DEF n
<1>. QED  BY <1>2, <1>3, StartHashingsInv

\* Add: the upload waits in to_hash_.
LEMMA AddInv ==
    ASSUME NEW m, NEW u, InvOf(m, u), m.alive, NEW r \in Requests,
           u[r].state = "Initial",
           NEW v \in Upload, v.state = "WaitForHashSignal", v.count_state = "None",
           "ReadNext" \notin v.pending
    PROVE  InvOf(Tick(HandleAddToHash([m EXCEPT !.requests = @ \cup {r}], r)),
                 [u EXCEPT ![r] = v])
<1>. DEFINE p == [m EXCEPT !.requests = @ \cup {r}]
            n == HandleAddToHash(p, r)
            w == [u EXCEPT ![r] = v]
<1>1. /\ m \in LooseManager /\ u \in [Requests -> Upload]
      /\ NoRepeat(m.to_hash) /\ NoRepeat(m.to_upload)
      /\ PlacesOf(m, u[r], r) /\ CountsOK(m, u) /\ LimitOK(m)
      /\ u[r].count_state = "None"
  BY DEF InvOf, UploadOK, PlacesOK, QueuesOK, CountOf, Uploading
<1>2. UploadOK(v)
  BY DEF UploadOK, CountOf, Uploading
<1>3. p \in LooseManager
  BY <1>1 DEF LooseManager
<1>4. SamePlaces(m, p) /\ SameQueues(m, p) /\ SameEvents(m, p)
  BY <1>1 DEF LooseManager, SamePlaces, SameQueues, SameEvents
<1>. HIDE DEF p
<1>5. p.alive
  BY <1>4 DEF SameEvents
<1>6. /\ n \in LooseManager /\ SamePlaces(p, n) /\ SameEvents(p, n)
      /\ n.to_hash = Append(p.to_hash, r) /\ n.to_upload = p.to_upload
  BY <1>3, <1>5, AddFacts
<1>. HIDE DEF n
<1>7. /\ n.alive /\ n.starts = m.starts
      /\ n.to_hash = Append(m.to_hash, r) /\ n.to_upload = m.to_upload
  BY <1>4, <1>5, <1>6 DEF SameEvents, SameQueues
<1>8. SamePlaces(m, n)
  BY <1>4, <1>6 DEF SamePlaces
<1>9. /\ r \notin ToSet(m.to_hash) /\ r \notin ToSet(m.to_upload)
      /\ <<"StartHash", r>> \notin m.starts /\ <<"StartUpload", r>> \notin m.starts
      /\ r \notin m.enqueued_to_start_hashings
      /\ r \notin m.enqueued_to_start_uploads
  BY <1>1 DEF PlacesOf
<1>10. NoRepeat(n.to_hash) /\ ToSet(n.to_hash) = ToSet(m.to_hash) \cup {r}
  <2>1. m.to_hash \in Seq(Requests)
    BY <1>1 DEF LooseManager
  <2>. QED  BY <1>1, <1>7, <1>9, <2>1, AppendFacts
<1>11. PlacesOf(n, v, r)
  BY <1>7, <1>8, <1>9, <1>10 DEF PlacesOf, SamePlaces
<1>. HIDE DEF w
<1>12. \A c : Cardinality(CountedIn(w, c)) = Cardinality(CountedIn(u, c))
  BY <1>1, CountedSame DEF w
<1>13. CountsOK(n, w) /\ LimitOK(n)
  BY <1>1, <1>8, <1>12 DEF CountsOK, LimitOK, SamePlaces
<1>14. QueuesOK(n)
  BY <1>1, <1>7, <1>10 DEF QueuesOK
<1>15. /\ ToSet(n.to_hash) \ {r} \subseteq ToSet(m.to_hash)
       /\ ToSet(n.to_upload) \ {r} \subseteq ToSet(m.to_upload)
       /\ n.enqueued_to_start_hashings \ {r} = m.enqueued_to_start_hashings \ {r}
       /\ n.enqueued_to_start_uploads \ {r} = m.enqueued_to_start_uploads \ {r}
  BY <1>7, <1>8, <1>10 DEF SamePlaces
<1>16. InvOf(n, w)
  BY <1>2, <1>6, <1>7, <1>11, <1>13, <1>14, <1>15, MoveInv DEF w
<1>17. InvOf(Tick(n), w)
  BY <1>7, <1>16, TickInv
<1>. QED  BY <1>17 DEF n, p, w

-----------------------------------------------------------------------------
(* The actions *)

\* The bound on the calls for a token is kept by whatever makes no such call.
SameCalls(m, n) == "token_calls" \in DOMAIN n /\ n.token_calls = m.token_calls

\* The callbacks make none.
LEMMA CallsFacts ==
    ASSUME NEW m, "token_calls" \in DOMAIN m, NEW r, NEW h
    PROVE  /\ SameCalls(m, EnqueueTick(m))
           /\ SameCalls(m, HandleRemoveToHash(m, r))
           /\ SameCalls(m, HandleAddToUpload(m, r))
           /\ SameCalls(m, HandleRemoveToUpload(m, r))
           /\ SameCalls(m, HandleComplete(m, r, h))
           /\ SameCalls(m, DecrementHashingCount(m))
           /\ SameCalls(m, DecrementUploadingCount(m))
           /\ SameCalls(m, IncrementHashingCount(m, r))
           /\ SameCalls(m, IncrementUploadingCount(m, r))
<1>1. SameCalls(m, EnqueueTick(m))
  BY DEF SameCalls, EnqueueTick
<1>2. SameCalls(m, HandleRemoveToHash(m, r))
  BY DEF SameCalls, EnqueueTick, HandleRemoveToHash, Callback
<1>3. SameCalls(m, HandleAddToUpload(m, r))
  BY DEF SameCalls, EnqueueTick, HandleAddToUpload, Callback
<1>4. SameCalls(m, HandleRemoveToUpload(m, r))
  BY DEF SameCalls, EnqueueTick, HandleRemoveToUpload, Callback
<1>5. SameCalls(m, HandleComplete(m, r, h))
  BY DEF SameCalls, EnqueueTick, HandleComplete, Callback
<1>6. SameCalls(m, DecrementHashingCount(m)) /\ SameCalls(m, DecrementUploadingCount(m))
  BY DEF SameCalls, EnqueueTick, DecrementHashingCount, DecrementUploadingCount, Callback
<1>7. SameCalls(m, IncrementHashingCount(m, r)) /\ SameCalls(m, IncrementUploadingCount(m, r))
  BY DEF SameCalls, IncrementHashingCount, IncrementUploadingCount, Callback
<1>. QED  BY <1>1, <1>2, <1>3, <1>4, <1>5, <1>6, <1>7

\* Neither do the changes of the count state and the exits of states.
LEMMA CountCalls ==
    ASSUME NEW m, "token_calls" \in DOMAIN m, NEW r, NEW x,
           NEW old \in {"None", "Hashing", "Uploading"},
           NEW new \in {"None", "Hashing", "Uploading"}
    PROVE  /\ SameCalls(m, SetCountState(m, r, old, new))
           /\ SameCalls(m, OnExit(m, r, x))
<1>. DEFINE left == CASE old = "None"      -> m
                      [] old = "Hashing"   -> DecrementHashingCount(m)
                      [] old = "Uploading" -> DecrementUploadingCount(m)
<1>1. SameCalls(m, left)
  <2>1. SameCalls(m, m)
    BY DEF SameCalls
  <2>2. left \in {m, DecrementHashingCount(m), DecrementUploadingCount(m)}
    OBVIOUS
  <2>. QED  BY <2>1, <2>2, CallsFacts
<1>2. SetCountState(m, r, old, new) \in
        {left, IncrementHashingCount(left, r), IncrementUploadingCount(left, r)}
  BY DEF SetCountState
<1>. HIDE DEF left
<1>3. SameCalls(m, SetCountState(m, r, old, new))
  <2>1. "token_calls" \in DOMAIN left
    BY <1>1 DEF SameCalls
  <2>2. /\ SameCalls(left, IncrementHashingCount(left, r))
        /\ SameCalls(left, IncrementUploadingCount(left, r))
    BY <2>1, CallsFacts
  <2>. QED  BY <1>1, <1>2, <2>2 DEF SameCalls
<1>4. SameCalls(m, OnExit(m, r, x))
  <2>1. SameCalls(m, m)
    BY DEF SameCalls
  <2>2. OnExit(m, r, x) \in {m, HandleRemoveToHash(m, r), HandleRemoveToUpload(m, r)}
    BY DEF OnExit
  <2>. QED  BY <2>1, <2>2, CallsFacts
<1>. QED  BY <1>3, <1>4

\* The pair (m, u) that a handler of upload r has reached: the other uploads
\* are as they were.
Reached(m, u, r) ==
    /\ InvOf(m, u)
    /\ up \in [Requests -> Upload]
    /\ u = [up EXCEPT ![r] = u[r]]

\* The handler ends with the entry of a final state.
LEMMA CompletedStep ==
    ASSUME NEW m, NEW u, NEW r \in Requests, Reached(m, u, r),
           NEW x \in Upload, x.state = u[r].state, x.count_state = u[r].count_state,
           "ReadNext" \notin x.pending,
           NEW k, k = OnExit(m, r, x),
           NEW final \in Ended, NEW error \in {"None", "Failed", "LogicError"},
           CompleteWith(r, k, x, final, error)
    PROVE  InvOf(um', up') /\ SameCalls(m, um')
<1>. DEFINE v == [x EXCEPT !.state = final, !.count_state = "None", !.error = error]
            b == SetCountState(k, r, x.count_state, "None")
<1>1. InvOf(m, u) /\ u = [up EXCEPT ![r] = u[r]] /\ u \in [Requests -> Upload] /\ m \in LooseManager
  BY DEF Reached, InvOf
<1>2. HasHash(r) \in BOOLEAN
  BY DEF HasHash
<1>3. v \in Upload /\ v.state \in Ended /\ v.count_state = "None" /\ "ReadNext" \notin v.pending
  BY DEF Upload, Ended, States
<1>4. um' = HandleComplete(b, r, HasHash(r)) /\ up' = [up EXCEPT ![r] = v]
  BY DEF CompleteWith
<1>. HIDE DEF v
<1>5. [u EXCEPT ![r] = v] = [up EXCEPT ![r] = v]
  BY <1>1
<1>6. InvOf(um', up')
  <2>1. /\ um' = HandleComplete(SetCountState(OnExit(m, r, x), r, u[r].count_state, "None"),
                                r, HasHash(r))
        /\ up' = [u EXCEPT ![r] = v]
    BY <1>4, <1>5
  <2>. HIDE DEF b
  <2>. QED  BY <1>1, <1>2, <1>3, <2>1, CompleteInv
<1>7. SameCalls(m, k)
  BY <1>1, CountCalls DEF LooseManager
<1>8. SameCalls(k, b)
  BY <1>7, CountCalls DEF SameCalls, Upload
<1>. HIDE DEF b
<1>9. SameCalls(b, um')
  <2>1. "token_calls" \in DOMAIN b
    BY <1>8 DEF SameCalls
  <2>. QED  BY <1>4, <2>1, CallsFacts
<1>10. SameCalls(m, um')
  BY <1>7, <1>8, <1>9 DEF SameCalls
<1>. QED  BY <1>6, <1>10

\* The handler ends in a state that waits.
LEMMA WaitStep ==
    ASSUME NEW m, NEW u, NEW r \in Requests, Reached(m, u, r),
           NEW x \in Upload, x.count_state = u[r].count_state,
           NEW state \in States, NEW c \in Continuations,
           "ReadNext" \in x.pending \cup {c} => state = "Hashing",
           state = u[r].state \/ (state \in Uploading /\ u[r].state \in Uploading),
           WaitIn(r, x, state, c), um' = m
    PROVE  InvOf(um', up') /\ SameCalls(m, um')
<1>. DEFINE v == [x EXCEPT !.state = state, !.pending = @ \cup {c}]
<1>1. InvOf(m, u) /\ u = [up EXCEPT ![r] = u[r]] /\ u \in [Requests -> Upload] /\ m \in LooseManager
  BY DEF Reached, InvOf
<1>2. /\ v \in Upload /\ v.state = state /\ v.count_state = u[r].count_state
      /\ "ReadNext" \in v.pending => v.state = "Hashing"
  BY DEF Upload
<1>3. up' = [up EXCEPT ![r] = v]
  BY DEF WaitIn
<1>. HIDE DEF v
<1>4. [u EXCEPT ![r] = v] = [up EXCEPT ![r] = v]
  BY <1>1
<1>5. InvOf(um', up')
  BY <1>1, <1>2, <1>3, <1>4, LocalInv
<1>6. SameCalls(m, um')
  BY <1>1 DEF SameCalls, LooseManager
<1>. QED  BY <1>5, <1>6

\* The entry of a final state from one that waits in no queue.
LEMMA CompletedHere ==
    ASSUME NEW m, NEW u, NEW r \in Requests, Reached(m, u, r),
           NEW x \in Upload, x.state = u[r].state, x.count_state = u[r].count_state,
           x.state \notin {"WaitForHashSignal", "WaitForUploadSignal"},
           "ReadNext" \notin x.pending,
           NEW error \in {"None", "Failed", "LogicError"},
           \/ CompleteWithError(r, m, x, error)
           \/ CompleteWithSuccess(r, m, x)
    PROVE  InvOf(um', up') /\ SameCalls(m, um')
<1>1. m = OnExit(m, r, x)
  BY DEF OnExit
<1>2. CASE CompleteWithError(r, m, x, error)
  BY <1>1, <1>2, CompletedStep DEF CompleteWithError, Ended
<1>3. CASE CompleteWithSuccess(r, m, x)
  BY <1>1, <1>3, CompletedStep DEF CompleteWithSuccess, Ended
<1>. QED  BY <1>2, <1>3

\* ReadFile: another read, the end of the hashing, or its failure.
LEMMA ReadFileStep ==
    ASSUME NEW m, NEW u, NEW r \in Requests, Reached(m, u, r), u[r].state = "Hashing",
           NEW x \in Upload, x.state = "Hashing", x.count_state = "Hashing",
           "ReadNext" \notin x.pending,
           ReadFile(r, m, x)
    PROVE  InvOf(um', up') /\ SameCalls(m, um')
<1>1. /\ InvOf(m, u) /\ u = [up EXCEPT ![r] = u[r]] /\ u \in [Requests -> Upload]
      /\ m \in LooseManager /\ u[r].count_state = "Hashing"
  BY DEF Reached, InvOf, UploadOK, CountOf
<1>2. CASE WaitIn(r, x, "Hashing", "ReadNext") /\ um' = m
  BY <1>1, <1>2, WaitStep DEF States, Continuations
<1>3. CASE /\ up' = [up EXCEPT ![r] = [x EXCEPT !.state = "WaitForUploadSignal"]]
           /\ um' = HandleAddToUpload(m, r)
  <2>. DEFINE v == [x EXCEPT !.state = "WaitForUploadSignal"]
  <2>1. /\ v \in Upload /\ v.state = "WaitForUploadSignal" /\ v.count_state = "Hashing"
        /\ "ReadNext" \notin v.pending
    BY DEF Upload, States
  <2>2. up' = [up EXCEPT ![r] = v]
    BY <1>3
  <2>. HIDE DEF v
  <2>3. up' = [u EXCEPT ![r] = v]
    BY <1>1, <2>2
  <2>4. InvOf(um', up')
    <3>1. um' = HandleAddToUpload(m, r)
      BY <1>3
    <3>2. InvOf(HandleAddToUpload(m, r), [u EXCEPT ![r] = v])
      BY <1>1, <2>1, HashedInv
    <3>. QED  BY <2>3, <3>1, <3>2
  <2>5. SameCalls(m, um')
    BY <1>1, <1>3, CallsFacts DEF LooseManager
  <2>. QED  BY <2>4, <2>5
<1>4. CASE CompleteWithError(r, m, x, "Failed")
  BY <1>1, <1>4, CompletedHere
<1>. QED  BY <1>2, <1>3, <1>4 DEF ReadFile

\* DoChunkUpload and the entry of the state it leads to.
LEMMA ChunkStep ==
    ASSUME NEW r \in Requests, Reached(um, up, r), up[r].state \in Uploading,
           NEW x \in Upload, x.state = up[r].state, x.count_state = up[r].count_state,
           "ReadNext" \notin x.pending,
           NEW done \in SUBSET Chunks,
           DoChunkUpload(r, x, done)
    PROVE  InvOf(um', up') /\ SameCalls(um, um')
<1>. DEFINE Entered(cs) == UploadChunkEntry([x EXCEPT !.chunk_states = cs], done)
            CS == [Chunks -> {"NeedsUpload", "Uploading", "Uploaded"}]
<1>1. ASSUME NEW cs \in CS
      PROVE  /\ Entered(cs) \in Upload
             /\ Entered(cs).state = up[r].state
             /\ Entered(cs).count_state = up[r].count_state
             /\ "ReadNext" \notin Entered(cs).pending
  <2>. DEFINE ds == [c \in Chunks |-> IF c \in done THEN "Uploaded" ELSE cs[c]]
              k == x.has_key \/ done # {}
  <2>1. ds \in CS /\ k \in BOOLEAN
    BY DEF Upload
  <2>2. Entered(cs) = [x EXCEPT !.chunk_states = ds, !.has_key = k]
    BY DEF UploadChunkEntry, Upload
  <2>. HIDE DEF ds, k
  <2>. QED  BY <2>1, <2>2 DEF Upload
<1>2. up[r].state \notin {"WaitForHashSignal", "WaitForUploadSignal"}
  BY DEF Uploading
<1>3. x.chunk_states \in CS
  BY DEF Upload
<1>4. ASSUME NEW c \in Chunks,
             WaitIn(r, Entered([x.chunk_states EXCEPT ![c] = "Uploading"]),
                    "UploadChunk", "chunk"),
             UNCHANGED um
      PROVE  InvOf(um', up') /\ SameCalls(um, um')
  <2>. DEFINE e == Entered([x.chunk_states EXCEPT ![c] = "Uploading"])
  <2>1. [x.chunk_states EXCEPT ![c] = "Uploading"] \in CS
    BY <1>3
  <2>2. /\ e \in Upload /\ e.count_state = up[r].count_state /\ "ReadNext" \notin e.pending
        /\ WaitIn(r, e, "UploadChunk", "chunk")
    BY <1>1, <1>4, <2>1
  <2>. HIDE DEF e
  <2>. QED  BY <1>4, <2>2, WaitStep DEF States, Continuations, Uploading
<1>. DEFINE f == Entered(x.chunk_states)
<1>5. /\ f \in Upload /\ f.state = up[r].state /\ f.count_state = up[r].count_state
      /\ "ReadNext" \notin f.pending
  BY <1>1, <1>3
<1>6. \/ \E c \in Chunks :
           /\ WaitIn(r, Entered([x.chunk_states EXCEPT ![c] = "Uploading"]),
                     "UploadChunk", "chunk")
           /\ UNCHANGED um
      \/ CompleteWithError(r, um, f, "Failed")
      \/ WaitIn(r, f, "PollUpload", "poll") /\ UNCHANGED um
      \/ CompleteWithError(r, um, f, "LogicError")
  BY DEF DoChunkUpload
<1>. HIDE DEF f
<1>7. CASE CompleteWithError(r, um, f, "Failed") \/ CompleteWithError(r, um, f, "LogicError")
  BY <1>2, <1>5, <1>7, CompletedHere
<1>8. CASE WaitIn(r, f, "PollUpload", "poll") /\ UNCHANGED um
  BY <1>5, <1>8, WaitStep DEF States, Continuations, Uploading
<1>. QED  BY <1>4, <1>6, <1>7, <1>8

\* A continuation leaves the pending ones when it runs.
LEMMA WithoutFacts ==
    ASSUME NEW r \in Requests, up \in [Requests -> Upload], NEW c
    PROVE  /\ Without(r, c) \in Upload
           /\ Without(r, c).state = up[r].state
           /\ Without(r, c).count_state = up[r].count_state
           /\ Without(r, c).chunk_states = up[r].chunk_states
           /\ Without(r, c).pending = up[r].pending \ {c}
<1>1. Without(r, c) \in Upload
  BY DEF Without, Upload
<1>2. /\ Without(r, c).state = up[r].state
      /\ Without(r, c).count_state = up[r].count_state
      /\ Without(r, c).chunk_states = up[r].chunk_states
      /\ Without(r, c).pending = up[r].pending \ {c}
  BY DEF Without, Upload
<1>. QED  BY <1>1, <1>2

\* An event that is ignored.
LEMMA IgnoredStep ==
    ASSUME NEW r \in Requests, Reached(um, up, r), NEW c, Ignored(r, c)
    PROVE  InvOf(um', up') /\ SameCalls(um, um')
<1>1. InvOf(um, up) /\ up \in [Requests -> Upload] /\ um \in LooseManager
  BY DEF Reached, InvOf
<1>2. up' = [up EXCEPT ![r] = Without(r, c)] /\ um' = um
  BY DEF Ignored
<1>3. "ReadNext" \in Without(r, c).pending => Without(r, c).state = "Hashing"
  BY <1>1, WithoutFacts DEF InvOf, UploadOK
<1>4. InvOf(um', up')
  BY <1>1, <1>2, <1>3, WithoutFacts, LocalInv
<1>. QED  BY <1>1, <1>2, <1>4 DEF SameCalls, LooseManager

\* The handlers of a state machine keep the invariant.
LEMMA UploadInv ==
    ASSUME IInv, NEW r \in Requests,
           \/ ModifyUpload(r)
           \/ StartHash(r)
           \/ ReadNext(r)
           \/ StartUpload(r)
           \/ \E event \in ErrorEvents : ErrorEvent(r, event)
           \/ CheckResponse(r)
           \/ InstantResponse(r)
           \/ SimpleResponse(r)
           \/ ChunkResponse(r)
           \/ \E finished \in BOOLEAN : PollResponse(r, finished)
           \/ RetryPoll(r)
    PROVE  IInv'
<1>1. InvOf(um, up) /\ up \in [Requests -> Upload] /\ um \in LooseManager
  BY DEF IInv, InvOf
<1>2. Reached(um, up, r)
  BY <1>1 DEF Reached
<1>3. "token_calls" \in DOMAIN um /\ um.token_calls <= MaxTokenCalls
  BY <1>1 DEF IInv, LooseManager
<1>4. SUFFICES InvOf(um', up') /\ SameCalls(um, um')
  BY <1>3 DEF IInv, SameCalls
<1>5. /\ up[r] \in Upload /\ up[r].state \in States
      /\ up[r].count_state = CountOf(up[r].state)
      /\ "ReadNext" \in up[r].pending => up[r].state = "Hashing"
  BY <1>1 DEF InvOf, Upload, UploadOK
<1>6. <<"StartHash", r>> \in um.starts \/ <<"StartUpload", r>> \in um.starts => um.alive
  BY <1>1 DEF InvOf, DeadManager, NewManager
<1>7. \A c : /\ Without(r, c) \in Upload
             /\ Without(r, c).state = up[r].state
             /\ Without(r, c).count_state = up[r].count_state
             /\ Without(r, c).pending = up[r].pending \ {c}
  BY <1>1, WithoutFacts
<1>8. CASE ModifyUpload(r)
  <2>. DEFINE v == [up[r] EXCEPT !.pending = @ \cup {"Error"}]
  <2>1. v \in Upload
    BY <1>5 DEF Upload, Continuations
  <2>2. /\ v.state = up[r].state /\ v.count_state = up[r].count_state
        /\ "ReadNext" \in v.pending => v.state = "Hashing"
    BY <1>5 DEF Upload
  <2>3. up' = [up EXCEPT ![r] = v] /\ um' = um
    BY <1>8 DEF ModifyUpload
  <2>. HIDE DEF v
  <2>4. InvOf(um', up')
    BY <1>1, <2>1, <2>2, <2>3, LocalInv
  <2>. QED  BY <1>3, <2>3, <2>4 DEF SameCalls
<1>9. CASE StartHash(r)
  <2>. DEFINE d == [um EXCEPT !.starts = @ \ {<<"StartHash", r>>}]
              n == SetCountState(HandleRemoveToHash(d, r), r, "None", "Hashing")
              v == [up[r] EXCEPT !.state = "Hashing", !.count_state = "Hashing"]
              w == [up EXCEPT ![r] = v]
  <2>1. um.alive /\ <<"StartHash", r>> \in um.starts
    BY <1>6, <1>9 DEF StartHash
  <2>2. SameCalls(um, d)
    BY <1>3 DEF SameCalls
  <2>3. CASE up[r].state = "WaitForHashSignal" /\ ReadFile(r, n, v)
    <3>1. v \in Upload
      BY <1>5 DEF Upload, States
    <3>2. v.state = "Hashing" /\ v.count_state = "Hashing" /\ "ReadNext" \notin v.pending
      BY <1>5, <2>3 DEF Upload
    <3>. HIDE DEF v
    <3>3. InvOf(n, w)
      BY <1>1, <2>1, <2>3, <3>1, <3>2, TakeHashInv
    <3>4. SameCalls(um, n)
      <4>. HIDE DEF d
      <4>. DEFINE e == HandleRemoveToHash(d, r)
      <4>1. SameCalls(d, e)
        BY <2>2, CallsFacts DEF SameCalls
      <4>. HIDE DEF e
      <4>2. "token_calls" \in DOMAIN e
        BY <4>1 DEF SameCalls
      <4>3. SameCalls(e, SetCountState(e, r, "None", "Hashing"))
        BY <4>2, CountCalls
      <4>4. SameCalls(e, n)
        BY <4>3 DEF e
      <4>. QED  BY <2>2, <4>1, <4>4 DEF SameCalls
    <3>. HIDE DEF n, d
    <3>5. w[r] = v /\ w = [up EXCEPT ![r] = w[r]]
      BY <1>1
    <3>. HIDE DEF w
    <3>6. Reached(n, w, r)
      BY <1>1, <3>3, <3>5 DEF Reached
    <3>7. InvOf(um', up') /\ SameCalls(n, um')
      BY <2>3, <3>1, <3>2, <3>5, <3>6, ReadFileStep
    <3>. QED  BY <3>4, <3>7 DEF SameCalls
  <2>4. CASE up[r].state \in Ended /\ um' = d /\ UNCHANGED up
    <3>1. InvOf(d, up)
      BY <1>1, <2>1, <2>4, DropInv
    <3>. HIDE DEF d
    <3>. QED  BY <2>2, <2>4, <3>1
  <2>. QED  BY <1>9, <2>3, <2>4 DEF StartHash
<1>10. CASE ReadNext(r)
  <2>. DEFINE x == Without(r, "ReadNext")
  <2>1. up[r].state = "Hashing" /\ up[r].count_state = "Hashing" /\ ReadFile(r, um, x)
    BY <1>5, <1>10 DEF ReadNext, CountOf
  <2>2. /\ x \in Upload /\ x.state = "Hashing" /\ x.count_state = "Hashing"
        /\ "ReadNext" \notin x.pending
    BY <1>7, <2>1
  <2>. HIDE DEF x
  <2>. QED  BY <1>2, <2>1, <2>2, ReadFileStep
<1>11. CASE StartUpload(r)
  <2>. DEFINE d == [um EXCEPT !.starts = @ \ {<<"StartUpload", r>>}]
              e == HandleRemoveToUpload(d, r)
              n == SetCountState(e, r, up[r].count_state, "Uploading")
              x == [up[r] EXCEPT !.count_state = "Uploading"]
              v == [x EXCEPT !.state = "InUploadCheck", !.pending = @ \cup {"check"}]
  <2>1. um.alive /\ <<"StartUpload", r>> \in um.starts
    BY <1>6, <1>11 DEF StartUpload
  <2>2. SameCalls(um, d)
    BY <1>3 DEF SameCalls
  <2>3. CASE up[r].state = "WaitForUploadSignal" /\ um' = n /\ up' = [up EXCEPT ![r] = v]
    <3>1. x \in Upload
      BY <1>5 DEF Upload
    <3>2. x.count_state = "Uploading" /\ "ReadNext" \notin x.pending
      BY <1>5, <2>3 DEF Upload
    <3>. HIDE DEF x
    <3>3. v \in Upload
      BY <3>1 DEF Upload, States, Continuations
    <3>4. v.state \in Uploading /\ v.count_state = "Uploading" /\ "ReadNext" \notin v.pending
      BY <3>1, <3>2 DEF Upload, Uploading
    <3>. HIDE DEF v
    <3>5. InvOf(n, [up EXCEPT ![r] = v])
      BY <1>1, <2>1, <2>3, <3>3, <3>4, TakeUploadInv
    <3>. HIDE DEF d
    <3>6. SameCalls(d, e)
      BY <2>2, CallsFacts DEF SameCalls
    <3>. HIDE DEF e
    <3>7. "token_calls" \in DOMAIN e /\ up[r].count_state \in {"None", "Hashing", "Uploading"}
      BY <1>5, <3>6 DEF SameCalls, Upload
    <3>8. SameCalls(e, n)
      BY <3>7, CountCalls
    <3>. HIDE DEF n
    <3>9. SameCalls(um, n)
      BY <2>2, <3>6, <3>8 DEF SameCalls
    <3>. QED  BY <2>3, <3>5, <3>9
  <2>4. CASE up[r].state \in Ended /\ um' = d /\ UNCHANGED up
    <3>1. InvOf(d, up)
      BY <1>1, <2>1, <2>4, DropInv
    <3>. HIDE DEF d
    <3>. QED  BY <2>2, <2>4, <3>1
  <2>. QED  BY <1>11, <2>3, <2>4 DEF StartUpload, WaitIn
<1>12. ASSUME NEW event \in ErrorEvents, ErrorEvent(r, event)
       PROVE  InvOf(um', up') /\ SameCalls(um, um')
  <2>. DEFINE x == Without(r, event)
  <2>1. CASE Ignored(r, event)
    BY <1>2, <2>1, IgnoredStep
  <2>2. CASE /\ up[r].state # "Hashing"
             /\ CompleteWithError(r, OnExit(um, r, x), x, "Failed")
    <3>1. /\ x \in Upload /\ x.state = up[r].state /\ x.count_state = up[r].count_state
          /\ "ReadNext" \notin x.pending
      BY <1>5, <1>7, <2>2
    <3>. HIDE DEF x
    <3>. QED  BY <1>2, <2>2, <3>1, CompletedStep DEF CompleteWithError, Ended
  <2>. QED  BY <1>12, <2>1, <2>2 DEF ErrorEvent
<1>13. CASE CheckResponse(r)
  <2>. DEFINE x == Without(r, "check")
              cs(have) == [c \in Chunks |-> IF c \in have THEN "Uploaded" ELSE "NeedsUpload"]
              y(have) == [x EXCEPT !.chunk_states = cs(have)]
  <2>1. CASE Ignored(r, "check")
    BY <1>2, <2>1, IgnoredStep
  <2>2. CASE /\ up[r].state = "InUploadCheck"
             /\ \/ CompleteWithError(r, um, x, "Failed")
                \/ CompleteWithSuccess(r, um, x)
                \/ WaitIn(r, x, "InstantUpload", "instant") /\ UNCHANGED um
                \/ DoSimpleUpload(r, x)
                \/ \E have \in SUBSET Chunks : DoChunkUpload(r, y(have), {})
    <3>1. /\ x \in Upload /\ x.state = up[r].state /\ x.count_state = up[r].count_state
          /\ "ReadNext" \notin x.pending
      BY <1>5, <1>7, <2>2
    <3>2. up[r].state \in Uploading
      BY <2>2 DEF Uploading
    <3>3. ASSUME NEW have \in SUBSET Chunks, DoChunkUpload(r, y(have), {})
          PROVE  InvOf(um', up') /\ SameCalls(um, um')
      <4>. HIDE DEF x
      <4>1. cs(have) \in [Chunks -> {"NeedsUpload", "Uploading", "Uploaded"}]
        OBVIOUS
      <4>. HIDE DEF cs
      <4>2. y(have) \in Upload
        BY <3>1, <4>1 DEF Upload
      <4>3. /\ y(have).state = up[r].state /\ y(have).count_state = up[r].count_state
            /\ "ReadNext" \notin y(have).pending
        BY <3>1 DEF Upload
      <4>. HIDE DEF y
      <4>. QED  BY <1>2, <3>2, <3>3, <4>2, <4>3, ChunkStep
    <3>. HIDE DEF x, y
    <3>4. CASE CompleteWithError(r, um, x, "Failed") \/ CompleteWithSuccess(r, um, x)
      BY <1>2, <2>2, <3>1, <3>4, CompletedHere
    <3>5. CASE WaitIn(r, x, "InstantUpload", "instant") /\ UNCHANGED um
      BY <1>2, <3>1, <3>2, <3>5, WaitStep DEF States, Continuations, Uploading
    <3>6. CASE WaitIn(r, x, "UploadFile", "simple") /\ UNCHANGED um
      BY <1>2, <3>1, <3>2, <3>6, WaitStep DEF States, Continuations, Uploading
    <3>. QED  BY <2>2, <3>3, <3>4, <3>5, <3>6 DEF DoSimpleUpload
  <2>. QED  BY <1>13, <2>1, <2>2 DEF CheckResponse
<1>14. CASE InstantResponse(r)
  <2>. DEFINE x == Without(r, "instant")
  <2>1. CASE Ignored(r, "instant")
    BY <1>2, <2>1, IgnoredStep
  <2>2. CASE /\ up[r].state = "InstantUpload"
             /\ CompleteWithError(r, um, x, "Failed") \/ CompleteWithSuccess(r, um, x)
    <3>1. /\ x \in Upload /\ x.state = up[r].state /\ x.count_state = up[r].count_state
          /\ "ReadNext" \notin x.pending
      BY <1>5, <1>7, <2>2
    <3>. HIDE DEF x
    <3>. QED  BY <1>2, <2>2, <3>1, CompletedHere
  <2>. QED  BY <1>14, <2>1, <2>2 DEF InstantResponse
<1>15. CASE SimpleResponse(r)
  <2>. DEFINE x == Without(r, "simple")
  <2>1. CASE Ignored(r, "simple")
    BY <1>2, <2>1, IgnoredStep
  <2>2. CASE /\ up[r].state = "UploadFile"
             /\ \/ WaitIn(r, x, "PollUpload", "poll") /\ UNCHANGED um
                \/ CompleteWithError(r, um, x, "Failed")
    <3>1. /\ x \in Upload /\ x.state = up[r].state /\ x.count_state = up[r].count_state
          /\ "ReadNext" \notin x.pending
      BY <1>5, <1>7, <2>2
    <3>. HIDE DEF x
    <3>2. CASE CompleteWithError(r, um, x, "Failed")
      BY <1>2, <2>2, <3>1, <3>2, CompletedHere
    <3>3. CASE WaitIn(r, x, "PollUpload", "poll") /\ UNCHANGED um
      BY <1>2, <2>2, <3>1, <3>3, WaitStep DEF States, Continuations, Uploading
    <3>. QED  BY <2>2, <3>2, <3>3
  <2>. QED  BY <1>15, <2>1, <2>2 DEF SimpleResponse
<1>16. CASE ChunkResponse(r)
  <2>. DEFINE x == Without(r, "chunk")
              done == {c \in Chunks : x.chunk_states[c] = "Uploading"}
  <2>1. CASE Ignored(r, "chunk")
    BY <1>2, <2>1, IgnoredStep
  <2>2. CASE /\ up[r].state = "UploadChunk"
             /\ DoChunkUpload(r, x, done) \/ CompleteWithError(r, um, x, "Failed")
    <3>1. /\ x \in Upload /\ x.state = up[r].state /\ x.count_state = up[r].count_state
          /\ "ReadNext" \notin x.pending
      BY <1>5, <1>7, <2>2
    <3>2. up[r].state \in Uploading /\ done \in SUBSET Chunks
      BY <2>2 DEF Uploading
    <3>. HIDE DEF x, done
    <3>3. CASE CompleteWithError(r, um, x, "Failed")
      BY <1>2, <2>2, <3>1, <3>3, CompletedHere
    <3>4. CASE DoChunkUpload(r, x, done)
      BY <1>2, <3>1, <3>2, <3>4, ChunkStep
    <3>. QED  BY <2>2, <3>3, <3>4
  <2>. QED  BY <1>16, <2>1, <2>2 DEF ChunkResponse
<1>17. ASSUME NEW finished \in BOOLEAN, PollResponse(r, finished)
       PROVE  InvOf(um', up') /\ SameCalls(um, um')
  <2>. DEFINE x == Without(r, "poll")
  <2>1. CASE Ignored(r, "poll")
    BY <1>2, <2>1, IgnoredStep
  <2>2. CASE WaitIn(r, x, up[r].state, "poll_timer") /\ UNCHANGED um
    <3>1. /\ x \in Upload /\ x.count_state = up[r].count_state
          /\ "ReadNext" \in x.pending \cup {"poll_timer"} => up[r].state = "Hashing"
      BY <1>5, <1>7
    <3>. HIDE DEF x
    <3>. QED  BY <1>2, <1>5, <2>2, <3>1, WaitStep DEF Continuations
  <2>3. CASE /\ up[r].state = "PollUpload"
             /\ CompleteWithError(r, um, x, "Failed") \/ CompleteWithSuccess(r, um, x)
    <3>1. /\ x \in Upload /\ x.state = up[r].state /\ x.count_state = up[r].count_state
          /\ "ReadNext" \notin x.pending
      BY <1>5, <1>7, <2>3
    <3>. HIDE DEF x
    <3>. QED  BY <1>2, <2>3, <3>1, CompletedHere
  <2>. QED  BY <1>17, <2>1, <2>2, <2>3 DEF PollResponse
<1>18. CASE RetryPoll(r)
  <2>. DEFINE x == Without(r, "poll_timer")
  <2>1. WaitIn(r, x, up[r].state, "poll") /\ UNCHANGED um
    BY <1>18 DEF RetryPoll
  <2>2. /\ x \in Upload /\ x.count_state = up[r].count_state
        /\ "ReadNext" \in x.pending \cup {"poll"} => up[r].state = "Hashing"
    BY <1>5, <1>7
  <2>. HIDE DEF x
  <2>. QED  BY <1>2, <1>5, <2>1, <2>2, WaitStep DEF Continuations
<1>. QED  BY <1>8, <1>9, <1>10, <1>11, <1>12, <1>13, <1>14, <1>15, <1>16, <1>17, <1>18

\* The manager when it is created.
LEMMA NewManagerFacts == NewManager \in LooseManager
<1>. DEFINE e == <<>>
<1>1. e \in Seq(Requests)
  OBVIOUS
<1>2. NewManager =
        [alive |-> TRUE, requests |-> {}, to_hash |-> e, to_upload |-> e,
         uploading_hashes |-> {}, enqueued_to_start_hashings |-> {},
         enqueued_to_start_uploads |-> {}, current_hashings |-> 0,
         current_uploads |-> 0, action_token_state |-> "Invalid",
         token_current |-> FALSE, token_calls |-> 0, retry_wait |-> FALSE,
         retry_due |-> FALSE, ticks |-> 0, starts |-> {}]
  BY DEF NewManager
<1>. HIDE DEF e
<1>. QED  BY <1>1, <1>2 DEF LooseManager

\* The handlers of the manager keep the invariant.
LEMMA ManagerInv ==
    ASSUME IInv,
           \/ Destroy
           \/ TickHandler
           \/ ActionTokenRetry
           \/ RetryTimerExpires
           \/ TokenExpires
           \/ \E granted \in BOOLEAN : HandleActionToken(granted)
           \/ \E r \in Requests : \E readable \in BOOLEAN : Add(r, readable)
    PROVE  IInv'
<1>1. /\ InvOf(um, up) /\ up \in [Requests -> Upload] /\ um \in LooseManager
      /\ um.token_calls \in Nat /\ um.token_calls <= MaxTokenCalls /\ MaxTokenCalls \in Nat
  BY UploaderAssumption DEF IInv, InvOf, LooseManager
<1>2. SUFFICES InvOf(um', up') /\ um'.token_calls <= MaxTokenCalls
  BY DEF IInv
<1>3. \/ um.ticks > 0 \/ um.token_calls > 0 \/ um.retry_due \/ um.retry_wait
      \/ um.action_token_state = "Valid"
      => um.alive
  BY <1>1 DEF InvOf, DeadManager, NewManager
<1>4. CASE Destroy
  <2>1. um' = DeadManager
    BY <1>4 DEF Destroy, DeadManager
  <2>2. DeadManager \in LooseManager
    <3>1. NewManager \in LooseManager
      BY NewManagerFacts
    <3>. HIDE DEF NewManager
    <3>. QED  BY <3>1 DEF DeadManager, LooseManager
  <2>3. ~DeadManager.alive /\ DeadManager.token_calls = 0
    BY DEF DeadManager, NewManager
  <2>4. ASSUME NEW r \in Requests  PROVE  up'[r] \in Upload /\ UploadOK(up'[r])
    <3>1. up[r] \in Upload /\ UploadOK(up[r])
      BY <1>1 DEF InvOf
    <3>2. CASE up'[r] = up[r]
      BY <3>1, <3>2
    <3>3. CASE /\ up[r].state # "Hashing"
               /\ up'[r] = [up[r] EXCEPT !.state = "CompleteWithError",
                                         !.count_state = "None", !.error = "Failed"]
      <4>1. up'[r] \in Upload
        BY <3>1, <3>3 DEF Upload, States
      <4>2. /\ up'[r].state = "CompleteWithError" /\ up'[r].count_state = "None"
            /\ up'[r].pending = up[r].pending
        BY <3>1, <3>3 DEF Upload
      <4>. QED  BY <3>1, <3>3, <4>1, <4>2 DEF UploadOK, CountOf, Uploading
    <3>. QED  BY <1>4, <3>2, <3>3 DEF Destroy
  <2>5. up' \in [Requests -> Upload]
    BY <1>4, <2>4 DEF Destroy
  <2>. QED  BY <1>1, <2>1, <2>2, <2>3, <2>4, <2>5 DEF InvOf
<1>5. CASE TickHandler
  <2>. DEFINE t == um.ticks - 1
              n == [um EXCEPT !.ticks = t]
  <2>1. um.alive /\ t \in Nat /\ um' = Tick(n) /\ up' = up /\ um'.token_calls <= MaxTokenCalls
    BY <1>1, <1>3, <1>5 DEF TickHandler, LooseManager
  <2>. HIDE DEF t
  <2>2. n \in LooseManager
    BY <1>1, <2>1 DEF LooseManager
  <2>3. SamePlaces(um, n) /\ SameQueues(um, n)
    BY <1>1 DEF LooseManager, SamePlaces, SameQueues
  <2>4. SameEvents(um, n)
    BY <1>1 DEF LooseManager, SameEvents
  <2>. HIDE DEF n
  <2>5. InvOf(n, up) /\ n.alive
    BY <1>1, <2>1, <2>2, <2>3, <2>4, MinorInv DEF SameEvents
  <2>. QED  BY <2>1, <2>5, TickInv
<1>6. CASE ActionTokenRetry
  <2>. DEFINE m == [um EXCEPT !.retry_due = FALSE]
              n == [m EXCEPT !.action_token_state = "Invalid"]
  <2>1. /\ um.alive /\ up' = up /\ um'.token_calls <= MaxTokenCalls
        /\ um' = m \/ um' = Tick(n)
    BY <1>3, <1>6 DEF ActionTokenRetry
  <2>2. m \in LooseManager /\ n \in LooseManager
    BY <1>1 DEF LooseManager
  <2>3. SamePlaces(um, m) /\ SameQueues(um, m) /\ SameEvents(um, m)
    BY <1>1 DEF LooseManager, SamePlaces, SameQueues, SameEvents
  <2>4. SamePlaces(um, n) /\ SameQueues(um, n) /\ SameEvents(um, n)
    BY <1>1 DEF LooseManager, SamePlaces, SameQueues, SameEvents
  <2>. HIDE DEF m, n
  <2>5. InvOf(m, up) /\ InvOf(n, up) /\ n.alive
    BY <1>1, <2>1, <2>2, <2>3, <2>4, MinorInv DEF SameEvents
  <2>. QED  BY <2>1, <2>5, TickInv
<1>7. CASE RetryTimerExpires
  <2>. DEFINE c == um.token_current /\ um.action_token_state # "Error"
              n == [um EXCEPT !.retry_wait = FALSE, !.retry_due = TRUE, !.token_current = c]
  <2>1. um.alive /\ um' = n /\ up' = up /\ c \in BOOLEAN
    BY <1>3, <1>7 DEF RetryTimerExpires
  <2>. HIDE DEF c
  <2>2. n \in LooseManager
    BY <1>1, <2>1 DEF LooseManager
  <2>3. SamePlaces(um, n) /\ SameQueues(um, n)
    BY <1>1 DEF LooseManager, SamePlaces, SameQueues
  <2>4. SameEvents(um, n) /\ n.token_calls = um.token_calls
    BY <1>1 DEF LooseManager, SameEvents
  <2>. HIDE DEF n
  <2>. QED  BY <1>1, <2>1, <2>2, <2>3, <2>4, MinorInv
<1>8. CASE TokenExpires
  <2>. DEFINE n == [um EXCEPT !.token_current = FALSE]
  <2>1. um.alive /\ um' = n /\ up' = up
    BY <1>3, <1>8 DEF TokenExpires
  <2>2. n \in LooseManager
    BY <1>1 DEF LooseManager
  <2>3. SamePlaces(um, n) /\ SameQueues(um, n)
    BY <1>1 DEF LooseManager, SamePlaces, SameQueues
  <2>4. SameEvents(um, n) /\ n.token_calls = um.token_calls
    BY <1>1 DEF LooseManager, SameEvents
  <2>. HIDE DEF n
  <2>. QED  BY <1>1, <2>1, <2>2, <2>3, <2>4, MinorInv
<1>9. ASSUME NEW granted \in BOOLEAN, HandleActionToken(granted)
      PROVE  InvOf(um', up') /\ um'.token_calls <= MaxTokenCalls
  <2>. DEFINE t == um.token_calls - 1
              m == [um EXCEPT !.token_calls = t, !.token_current = TRUE]
              a == [m EXCEPT !.action_token_state = "Valid"]
              b == [m EXCEPT !.action_token_state = "Error", !.retry_wait = TRUE]
  <2>1. /\ um.alive /\ up' = up /\ t \in Nat /\ t <= MaxTokenCalls
        /\ um' = Tick(a) \/ um' = b
    BY <1>1, <1>3, <1>9 DEF HandleActionToken
  <2>. HIDE DEF t
  <2>2. m \in LooseManager
    BY <1>1, <2>1 DEF LooseManager
  <2>3. SamePlaces(um, m) /\ SameQueues(um, m)
    BY <1>1 DEF LooseManager, SamePlaces, SameQueues
  <2>4. SameEvents(um, m) /\ m.token_calls = t /\ m.token_current
    BY <1>1 DEF LooseManager, SameEvents
  <2>. HIDE DEF m
  <2>5. a \in LooseManager /\ b \in LooseManager
    BY <2>2 DEF LooseManager
  <2>6. /\ SamePlaces(m, a) /\ SameQueues(m, a) /\ SameEvents(m, a)
        /\ a.token_calls = m.token_calls /\ a.action_token_state = "Valid"
        /\ a.token_current = m.token_current
    BY <2>2 DEF LooseManager, SamePlaces, SameQueues, SameEvents
  <2>7. /\ SamePlaces(m, b) /\ SameQueues(m, b) /\ SameEvents(m, b)
        /\ b.token_calls = m.token_calls
    BY <2>2 DEF LooseManager, SamePlaces, SameQueues, SameEvents
  <2>. HIDE DEF a, b
  <2>8. InvOf(m, up) /\ m.alive
    BY <1>1, <2>1, <2>2, <2>3, <2>4, MinorInv DEF SameEvents
  <2>9. InvOf(a, up) /\ a.alive
    BY <2>5, <2>6, <2>8, MinorInv DEF SameEvents
  <2>10. InvOf(b, up)
    BY <2>5, <2>7, <2>8, MinorInv
  <2>. QED  BY <2>1, <2>4, <2>6, <2>7, <2>9, <2>10, TickInv
<1>10. ASSUME NEW r \in Requests, NEW readable \in BOOLEAN, Add(r, readable)
       PROVE  InvOf(um', up') /\ um'.token_calls <= MaxTokenCalls
  <2>. DEFINE p == IF readable THEN {} ELSE {"FileError"}
              v == [up[r] EXCEPT !.state = "WaitForHashSignal", !.pending = p]
  <2>1. /\ um.alive /\ up[r].state = "Initial" /\ um'.token_calls <= MaxTokenCalls
        /\ um' = Tick(HandleAddToHash([um EXCEPT !.requests = @ \cup {r}], r))
    BY <1>10 DEF Add
  <2>2. up' = [up EXCEPT ![r] = v]
    BY <1>1, <1>10 DEF Add
  <2>3. up[r] \in Upload /\ up[r].count_state = "None"
    BY <1>1, <2>1 DEF InvOf, UploadOK, CountOf, Uploading
  <2>4. p \in SUBSET Continuations /\ "ReadNext" \notin p
    BY DEF Continuations
  <2>. HIDE DEF p
  <2>5. v \in Upload
    BY <2>3, <2>4 DEF Upload, States
  <2>6. v.state = "WaitForHashSignal" /\ v.count_state = "None" /\ "ReadNext" \notin v.pending
    BY <2>3, <2>4 DEF Upload
  <2>. HIDE DEF v
  <2>7. InvOf(um', up')
    BY <1>1, <2>1, <2>2, <2>5, <2>6, AddInv
  <2>. QED  BY <2>1, <2>7
<1>. QED  BY <1>4, <1>5, <1>6, <1>7, <1>8, <1>9, <1>10

-----------------------------------------------------------------------------
(* Theorems *)

\* The invariant holds when the manager has been created.
LEMMA InitInv == Init => IInv
<1>. SUFFICES ASSUME Init  PROVE  IInv
  OBVIOUS
<1>1. NewUpload \in Upload
  BY DEF NewUpload, Upload, States
<1>2. UploadOK(NewUpload)
  BY DEF NewUpload, UploadOK, CountOf, Uploading
<1>3. \A c \in {"Hashing", "Uploading"} : NewUpload.count_state # c
  BY DEF NewUpload
<1>4. NewUpload.state = "Initial"
  BY DEF NewUpload
<1>5. up \in [Requests -> Upload] /\ \A r \in Requests : up[r] = NewUpload
  BY <1>1 DEF Init
<1>6. um \in LooseManager
  BY NewManagerFacts DEF Init
<1>7. /\ um.alive /\ um.starts = {} /\ um.to_hash = <<>> /\ um.to_upload = <<>>
      /\ um.current_hashings = 0 /\ um.current_uploads = 0
      /\ um.enqueued_to_start_hashings = {} /\ um.enqueued_to_start_uploads = {}
      /\ um.token_calls = 0
  BY DEF Init, NewManager
<1>8. CountedIn(up, "Hashing") = {} /\ CountedIn(up, "Uploading") = {}
  BY <1>3, <1>5 DEF CountedIn
<1>9. CountsOK(um, up) /\ LimitOK(um)
  <2>1. Cardinality({}) = 0
    BY FS_EmptySet
  <2>2. CountsOK(um, up)
    BY <1>7, <1>8, <2>1 DEF CountsOK
  <2>3. LimitOK(um)
    BY <1>7, <2>1, UploaderAssumption DEF LimitOK
  <2>. QED  BY <2>2, <2>3
<1>10. QueuesOK(um) /\ ToSet(um.to_hash) = {} /\ ToSet(um.to_upload) = {}
  BY <1>7 DEF QueuesOK, NoRepeat, ToSet
<1>11. PlacesOK(um, up)
  BY <1>7, <1>10 DEF PlacesOK, PlacesOf
<1>. QED  BY <1>2, <1>5, <1>6, <1>7, <1>9, <1>10, <1>11, UploaderAssumption DEF IInv, InvOf

\* The places of the uploads are kept in every reachable state: it is the
\* inductive invariant of the upload manager and of its state machines.
THEOREM PlacesInvariant == Spec => []IInv
<1>1. ASSUME IInv, [Next]_vars  PROVE  IInv'
  <2>1. CASE UNCHANGED vars
    BY <1>1, <2>1 DEF vars, IInv, InvOf, QueuesOK, PlacesOK, PlacesOf, CountsOK, LimitOK,
                      CountedIn, UploadOK
  <2>2. CASE Next
    BY <1>1, <2>2, UploadInv, ManagerInv DEF Next
  <2>. QED  BY <1>1, <2>1, <2>2
<1>. QED  BY <1>1, InitInv, PTL DEF Spec

\* The manager's counters, queues and sets and the state machines keep their
\* types; in particular no counter of running hashings or uploads goes below
\* zero or above the number of uploads.
THEOREM TypeCorrect == Spec => []TypeOK
<1>1. IInv => TypeOK
  <2>. SUFFICES ASSUME IInv  PROVE  TypeOK
    OBVIOUS
  <2>1. um \in LooseManager /\ up \in [Requests -> Upload] /\ um.token_calls <= MaxTokenCalls
    BY DEF IInv, InvOf
  <2>2. Cardinality(Requests) \in Nat
    BY FS_CardinalityType, UploaderAssumption
  <2>3. ASSUME NEW c  PROVE  Cardinality(CountedIn(up, c)) \in 0..Cardinality(Requests)
    <3>1. CountedIn(up, c) \subseteq Requests
      BY DEF CountedIn
    <3>2. /\ IsFiniteSet(CountedIn(up, c))
          /\ Cardinality(CountedIn(up, c)) <= Cardinality(Requests)
      BY <3>1, FS_Subset, UploaderAssumption
    <3>3. Cardinality(CountedIn(up, c)) \in Nat
      BY <3>2, FS_CardinalityType
    <3>. QED  BY <2>2, <3>2, <3>3
  <2>4. /\ um.current_hashings \in 0..Cardinality(Requests)
        /\ um.current_uploads \in 0..Cardinality(Requests)
    <3>1. CASE um.alive
      BY <2>3, <3>1 DEF IInv, InvOf, CountsOK
    <3>2. CASE ~um.alive
      <4>1. um.current_hashings = 0 /\ um.current_uploads = 0
        BY <3>2 DEF IInv, InvOf, DeadManager, NewManager
      <4>. QED  BY <2>2, <4>1
    <3>. QED  BY <3>1, <3>2
  <2>5. um.token_calls \in 0..MaxTokenCalls
    BY <2>1, UploaderAssumption DEF LooseManager
  <2>6. um \in Manager
    BY <2>1, <2>4, <2>5 DEF LooseManager, Manager
  <2>. QED  BY <2>1, <2>6 DEF TypeOK
<1>. QED  BY <1>1, PlacesInvariant, PTL

\* For any number of uploads and any limits, however uploads are added,
\* cancelled, refused or fail, no more hashings and uploads run or are about to
\* start than the manager allows (Tick_StartHashings, CanUploadMore).
THEOREM LimitsHold == Spec => []ConcurrencyLimit
<1>1. IInv => ConcurrencyLimit
  <2>. SUFFICES ASSUME IInv  PROVE  ConcurrencyLimit
    OBVIOUS
  <2>1. CASE um.alive
    BY <2>1 DEF IInv, InvOf, LimitOK, ConcurrencyLimit
  <2>2. CASE ~um.alive
    <3>1. /\ um.current_hashings = 0 /\ um.current_uploads = 0
          /\ um.enqueued_to_start_hashings = {} /\ um.enqueued_to_start_uploads = {}
      BY <2>2 DEF IInv, InvOf, DeadManager, NewManager
    <3>. QED  BY <3>1, FS_EmptySet, UploaderAssumption DEF ConcurrencyLimit
  <2>. QED  BY <2>1, <2>2
<1>. QED  BY <1>1, PlacesInvariant, PTL

\* For any number of uploads, the counters count the state machines between the
\* SetCountState calls, and a place that Tick has reserved belongs to an upload
\* whose start event is still to be taken (HandleComplete,
\* IncrementHashingCount, IncrementUploadingCount).
THEOREM NoPlaceLost == Spec => []NoSlotLeak
<1>1. IInv => NoSlotLeak
  <2>. SUFFICES ASSUME IInv, um.alive  PROVE  NoSlotLeak
    BY DEF NoSlotLeak
  <2>1. um \in LooseManager /\ PlacesOK(um, up) /\ CountsOK(um, up)
    BY DEF IInv, InvOf
  <2>2. /\ um.current_hashings = Cardinality(Counted("Hashing"))
        /\ um.current_uploads = Cardinality(Counted("Uploading"))
    BY <2>1 DEF CountsOK, CountedIn, Counted
  <2>3. /\ um.enqueued_to_start_hashings \subseteq Requests
        /\ um.enqueued_to_start_uploads \subseteq Requests
    BY <2>1 DEF LooseManager
  <2>4. um.enqueued_to_start_hashings = StartPending("StartHash", "WaitForHashSignal")
    BY <2>1, <2>3 DEF PlacesOK, PlacesOf, StartPending
  <2>5. um.enqueued_to_start_uploads = StartPending("StartUpload", "WaitForUploadSignal")
    BY <2>1, <2>3 DEF PlacesOK, PlacesOf, StartPending
  <2>. QED  BY <2>2, <2>4, <2>5 DEF NoSlotLeak
<1>. QED  BY <1>1, PlacesInvariant, PTL

-----------------------------------------------------------------------------
(***************************************************************************)
(* Nothing that waits is forgotten.  The invariant is about the manager    *)
(* alone; a handler of an upload keeps it because each of its callbacks    *)
(* posts a Tick, and Tick establishes it.                                  *)
(***************************************************************************)

\* A queued hashing that has a place is waited for by a Tick.
HashWaits(m) ==
    /\ m.to_hash # <<>>
    /\ m.current_hashings + Cardinality(m.enqueued_to_start_hashings) < MaxHashings
    => m.ticks > 0

\* What leads to an answer about the token: a call, or the retry timer while
\* the failure counts.
TokenAwaited(m) ==
    \/ m.token_calls > 0
    \/ m.action_token_state = "Error" /\ (m.retry_wait \/ m.retry_due)

\* A queued upload that may start is waited for by a Tick, by a start (whose
\* callbacks tick) or by an answer about the token.
UploadWaits(m) ==
    Startable(m) # {} /\ CanUploadMore(m)
    => m.ticks > 0 \/ m.enqueued_to_start_uploads # {} \/ TokenAwaited(m)

\* A failure that holds requests back has the retry timer running.
RetryArmed(m) ==
    m.action_token_state = "Error" /\ m.token_current => m.retry_wait \/ m.retry_due

WakeOK(m) == HashWaits(m) /\ UploadWaits(m) /\ RetryArmed(m)

\* Only the destructor leaves a manager without a Tick, and with nothing to do.
LEMMA DeadWake ==
    ASSUME NEW m, m = DeadManager
    PROVE  WakeOK(m)
<1>1. /\ m.to_hash = <<>> /\ m.to_upload = <<>>
      /\ m.action_token_state = "Invalid"
  BY DEF DeadManager, NewManager
<1>2. Startable(m) = {}
  BY <1>1 DEF Startable, ToSet
<1>. QED  BY <1>1, <1>2 DEF WakeOK, HashWaits, UploadWaits, RetryArmed

\* The queue of hashings as Tick finds it.
QueueReady(m) ==
    /\ m \in LooseManager
    /\ QueuesOK(m)
    /\ ToSet(m.to_hash) \cap m.enqueued_to_start_hashings = {}

\* The places keep the queue of hashings apart from what is about to start.
LEMMA QueueIsReady ==
    ASSUME NEW m, NEW u, InvOf(m, u), m.alive
    PROVE  QueueReady(m)
<1>1. m \in LooseManager /\ QueuesOK(m) /\ PlacesOK(m, u)
  BY DEF InvOf
<1>2. ToSet(m.to_hash) \subseteq Requests
  BY <1>1 DEF LooseManager, ToSet
<1>3. ToSet(m.to_hash) \cap m.enqueued_to_start_hashings = {}
  BY <1>1, <1>2 DEF PlacesOK, PlacesOf
<1>. QED  BY <1>1, <1>3 DEF QueueReady

\* The first n elements of a queue are n elements.
LEMMA TakenCount ==
    ASSUME NEW S, NEW s \in Seq(S), NoRepeat(s), NEW n \in 0..Len(s)
    PROVE  Cardinality(Taken(s, n)) = n
<1>. DEFINE f == [i \in 1..n |-> s[i]]
            taken == Taken(s, n)
<1>0. \A x : x \in taken <=> \E i \in 1..n : x = s[i]
  BY DEF Taken
<1>1. f \in Bijection(1..n, taken)
  <2>1. f \in Surjection(1..n, taken)
    BY <1>0 DEF Surjection
  <2>2. \A i, j \in 1..n : f[i] = f[j] => i = j
    BY DEF NoRepeat
  <2>. QED  BY <2>1, <2>2 DEF Bijection, Injection, Surjection, IsInjective
<1>2. IsFiniteSet(1..n) /\ Cardinality(1..n) = n
  BY FS_Interval
<1>3. Cardinality(1..n) = Cardinality(taken)
  BY <1>1, <1>2, FS_Bijection DEF ExistsBijection
<1>. QED  BY <1>2, <1>3

\* Tick_StartHashings leaves a queued hashing only when it has no place.
LEMMA HashingsTaken ==
    ASSUME NEW m, QueueReady(m)
    PROVE  HashWaits(Tick_StartHashings(m))
<1>. DEFINE h == m.to_hash
            free == FreeHashings(m)
            k == IF free <= 0 THEN 0
                 ELSE IF free < Len(h) THEN free ELSE Len(h)
            T == Taken(h, k)
            s == Left(h, k)
            F == m.enqueued_to_start_hashings
            E == F \cup T
            P == m.starts \cup ({"StartHash"} \X T)
            n == [m EXCEPT !.to_hash = s, !.enqueued_to_start_hashings = E, !.starts = P]
<1>1. m \in LooseManager /\ h \in Seq(Requests) /\ NoRepeat(h) /\ ToSet(h) \cap F = {}
  BY DEF QueueReady, LooseManager, QueuesOK
<1>2. Tick_StartHashings(m) = n
  BY DEF Tick_StartHashings, Taken, Left
<1>3. /\ IsFiniteSet(F) /\ Cardinality(F) \in Nat /\ m.current_hashings \in Int
  BY <1>1, PlacesFinite
<1>4. /\ free = MaxHashings - (m.current_hashings + Cardinality(F))
      /\ free \in Int /\ Len(h) \in Nat /\ MaxHashings \in Nat
  BY <1>1, <1>3, UploaderAssumption DEF FreeHashings
<1>5. /\ k \in 0..Len(h)
      /\ free <= 0 => k = 0
      /\ free > 0 => k = free \/ k = Len(h)
  <2>. HIDE DEF free, h
  <2>. QED  BY <1>4
<1>. HIDE DEF k, h, free
<1>6. T \subseteq ToSet(h) /\ IsFiniteSet(T) /\ Cardinality(T) = k
  BY <1>1, <1>5, TakeFacts, TakenCount
<1>7. k = Len(h) => s = <<>>
  BY <1>1 DEF Left
<1>. HIDE DEF s, T
<1>8. Cardinality(E) = Cardinality(F) + k
  <2>1. F \cap T = {}
    BY <1>1, <1>6
  <2>2. Cardinality(E) = Cardinality(F) + Cardinality(T) - Cardinality(F \cap T)
    BY <1>3, <1>6, FS_Union
  <2>3. Cardinality(F \cap T) = 0
    BY <2>1, FS_EmptySet
  <2>. QED  BY <1>3, <1>5, <1>6, <2>2, <2>3
<1>. HIDE DEF E, P, F
<1>9. /\ n.to_hash = s /\ n.enqueued_to_start_hashings = E
      /\ n.current_hashings = m.current_hashings
  BY <1>1 DEF LooseManager
<1>. HIDE DEF n
<1>10. n.to_hash = <<>> \/ ~(n.current_hashings + Cardinality(n.enqueued_to_start_hashings) < MaxHashings)
  <2>1. CASE free > 0 /\ k = Len(h)
    BY <1>7, <1>9, <2>1
  <2>2. CASE free > 0 /\ k = free
    BY <1>3, <1>4, <1>8, <1>9, <2>2
  <2>3. CASE free <= 0 /\ k = 0
    BY <1>3, <1>4, <1>8, <1>9, <2>3
  <2>. QED  BY <1>4, <1>5, <2>1, <2>2, <2>3
<1>. QED  BY <1>2, <1>10 DEF HashWaits

\* Tick_StartUploads leaves an upload that may start only when an answer about
\* the token or a start is waited for.
LEMMA UploadsTaken ==
    ASSUME NEW m \in LooseManager, RetryArmed(m)
    PROVE  LET n == Tick_StartUploads(m) IN UploadWaits(n) /\ RetryArmed(n)
<1>. DEFINE n == Tick_StartUploads(m)
<1>1. CASE m.to_upload = <<>>
  <2>1. n = m /\ Startable(m) = {}
    BY <1>1 DEF Tick_StartUploads, Startable, ToSet
  <2>. QED  BY <2>1 DEF UploadWaits
<1>2. CASE m.to_upload # <<>> /\ (m.action_token_state # "Valid" \/ ~m.token_current)
  <2>1. n = RequestActionToken(m)
    BY <1>2 DEF Tick_StartUploads
  <2>2. CASE m.action_token_state = "Error" /\ m.token_current
    BY <2>1, <2>2 DEF RequestActionToken, UploadWaits, RetryArmed, TokenAwaited
  <2>3. CASE ~(m.action_token_state = "Error" /\ m.token_current)
    <3>1. n.action_token_state = "Retrieving" /\ n.token_calls > 0
      BY <2>1, <2>3 DEF RequestActionToken, LooseManager
    <3>. HIDE DEF n
    <3>. QED  BY <3>1 DEF UploadWaits, RetryArmed, TokenAwaited, n
  <2>. QED  BY <2>2, <2>3
<1>3. CASE /\ m.to_upload # <<>>
           /\ ~(m.action_token_state # "Valid" \/ ~m.token_current)
           /\ CanUploadMore(m) /\ Startable(m) # {}
  <2>1. n = StartFirstUpload(m)
    BY <1>3 DEF Tick_StartUploads
  <2>2. n.action_token_state = "Valid" /\ n.enqueued_to_start_uploads # {}
    BY <1>3, <2>1 DEF StartFirstUpload, LooseManager
  <2>. HIDE DEF n
  <2>. QED  BY <2>2 DEF UploadWaits, RetryArmed, n
<1>4. CASE /\ m.to_upload # <<>>
           /\ ~(m.action_token_state # "Valid" \/ ~m.token_current)
           /\ ~(CanUploadMore(m) /\ Startable(m) # {})
  <2>1. n = m
    BY <1>4 DEF Tick_StartUploads
  <2>. QED  BY <1>4, <2>1 DEF UploadWaits
<1>. QED  BY <1>1, <1>2, <1>3, <1>4

\* Tick_StartUploads leaves the hashings alone, and Tick_StartHashings the
\* uploads.
LEMMA StartUploadsQueue ==
    ASSUME NEW m, QueueReady(m)
    PROVE  QueueReady(Tick_StartUploads(m))
<1>. DEFINE n == Tick_StartUploads(m)
<1>1. m \in LooseManager /\ NoRepeat(m.to_hash) /\ NoRepeat(m.to_upload)
  BY DEF QueueReady, QueuesOK
<1>2. CASE n = m
  BY <1>2
<1>3. CASE n = RequestActionToken(m)
  BY <1>1, <1>3, RequestFacts DEF QueueReady, QueuesOK, SamePlaces, SameQueues
<1>4. CASE n = StartFirstUpload(m) /\ Startable(m) # {}
  <2>. DEFINE i == SelectInSeq(m.to_upload, LAMBDA r : FileHash[r] \notin m.uploading_hashes)
              r == m.to_upload[i]
              s == RemoveAt(m.to_upload, i)
              H == m.uploading_hashes \cup {FileHash[r]}
              E == m.enqueued_to_start_uploads \cup {r}
              P == m.starts \cup {<<"StartUpload", r>>}
              k == [m EXCEPT !.to_upload = s, !.uploading_hashes = H,
                             !.enqueued_to_start_uploads = E, !.starts = P]
  <2>1. k = StartFirstUpload(m)
    BY DEF StartFirstUpload
  <2>2. m.to_upload \in Seq(Requests) /\ \E q \in ToSet(m.to_upload) : FileHash[q] \notin m.uploading_hashes
    BY <1>1, <1>4 DEF LooseManager, Startable
  <2>3. i \in 1..Len(m.to_upload)
    BY <2>2, FirstMatch DEF SelectInSeq
  <2>. HIDE DEF i
  <2>4. r \in Requests /\ s \in Seq(Requests) /\ NoRepeat(s)
    BY <1>1, <2>2, <2>3, RemoveAtFacts
  <2>. HIDE DEF r, s
  <2>5. H \in SUBSET Hashes /\ E \in SUBSET Requests /\ P \in SUBSET Starts
    BY <1>1, <2>4, UploaderAssumption DEF LooseManager, Starts
  <2>. HIDE DEF H, E, P
  <2>6. k \in LooseManager
    BY <1>1, <2>4, <2>5 DEF LooseManager
  <2>7. /\ k.to_hash = m.to_hash /\ k.to_upload = s
        /\ k.enqueued_to_start_hashings = m.enqueued_to_start_hashings
    BY <1>1 DEF LooseManager
  <2>. HIDE DEF k
  <2>. QED  BY <1>1, <1>4, <2>1, <2>4, <2>6, <2>7 DEF QueueReady, QueuesOK
<1>. QED  BY <1>2, <1>3, <1>4 DEF Tick_StartUploads

\* Tick leaves nothing that waits without something that will look at it.
LEMMA TickWake ==
    ASSUME NEW m, QueueReady(m), RetryArmed(m)
    PROVE  WakeOK(Tick(m))
<1>. DEFINE a == Tick_StartUploads(m)
            n == Tick_StartHashings(a)
<1>1. UploadWaits(a) /\ RetryArmed(a) /\ QueueReady(a)
  BY UploadsTaken, StartUploadsQueue DEF QueueReady
<1>2. n = Tick(m)
  BY DEF Tick
<1>. HIDE DEF a
<1>3. HashWaits(n)
  BY <1>1, HashingsTaken
<1>4. a \in LooseManager
  BY <1>1 DEF QueueReady
<1>5. /\ n.to_upload = a.to_upload /\ n.uploading_hashes = a.uploading_hashes
      /\ n.current_uploads = a.current_uploads
      /\ n.enqueued_to_start_uploads = a.enqueued_to_start_uploads
      /\ n.token_calls = a.token_calls /\ n.ticks = a.ticks
      /\ n.action_token_state = a.action_token_state /\ n.token_current = a.token_current
      /\ n.retry_wait = a.retry_wait /\ n.retry_due = a.retry_due
  BY <1>4 DEF Tick_StartHashings, LooseManager
<1>. HIDE DEF n
<1>6. Startable(n) = Startable(a) /\ (CanUploadMore(n) <=> CanUploadMore(a))
  BY <1>5 DEF Startable, CanUploadMore
<1>7. UploadWaits(n) /\ RetryArmed(n)
  BY <1>1, <1>5, <1>6 DEF UploadWaits, RetryArmed, TokenAwaited
<1>. QED  BY <1>2, <1>3, <1>7 DEF WakeOK

-----------------------------------------------------------------------------
(***************************************************************************)
(* What a handler of upload r tells the manager.  The fields that the      *)
(* invariants of this section read are named one by one.                   *)
(***************************************************************************)

Told(m, n, r) ==
    /\ DOMAIN n = DOMAIN m
    /\ n.alive = m.alive
    /\ n.action_token_state = m.action_token_state
    /\ n.token_current = m.token_current
    /\ n.retry_wait = m.retry_wait
    /\ n.retry_due = m.retry_due
    /\ n.ticks \in Nat /\ n.ticks >= m.ticks
    /\ n.uploading_hashes \subseteq m.uploading_hashes
    /\ m.enqueued_to_start_uploads \ {r} \subseteq n.enqueued_to_start_uploads

\* A manager that can be told something.
Tellable(m) ==
    /\ {"alive", "action_token_state", "token_current", "retry_wait", "retry_due",
        "ticks", "uploading_hashes", "enqueued_to_start_uploads"} \subseteq DOMAIN m
    /\ m.ticks \in Nat

\* One callback after the other.
LEMMA ToldTrans ==
    ASSUME NEW m, NEW n, NEW k, NEW r, m.ticks \in Nat, Told(m, n, r), Told(n, k, r)
    PROVE  Told(m, k, r)
BY DEF Told

\* A posted Tick.
LEMMA TickPosted ==
    ASSUME NEW m, Tellable(m), NEW r
    PROVE  Told(m, EnqueueTick(m), r) /\ EnqueueTick(m).ticks > 0
BY DEF Told, Tellable, EnqueueTick

\* Every callback of the manager but the increments of the counters posts one.
LEMMA CallbacksTell ==
    ASSUME NEW m, Tellable(m), NEW r, NEW hashed
    PROVE  /\ \A n \in {HandleRemoveToHash(m, r), HandleAddToUpload(m, r),
                        HandleRemoveToUpload(m, r), HandleComplete(m, r, hashed),
                        DecrementHashingCount(m), DecrementUploadingCount(m)} :
                /\ Told(m, n, r)
                /\ m.alive => n.ticks > 0
           /\ Told(m, IncrementHashingCount(m, r), r)
           /\ Told(m, IncrementUploadingCount(m, r), r)
<1>1. Told(m, HandleRemoveToHash(m, r), r) /\ (m.alive => HandleRemoveToHash(m, r).ticks > 0)
  BY DEF Told, Tellable, EnqueueTick, HandleRemoveToHash, Callback
<1>2. Told(m, HandleAddToUpload(m, r), r) /\ (m.alive => HandleAddToUpload(m, r).ticks > 0)
  BY DEF Told, Tellable, EnqueueTick, HandleAddToUpload, Callback
<1>3. Told(m, HandleRemoveToUpload(m, r), r) /\ (m.alive => HandleRemoveToUpload(m, r).ticks > 0)
  BY DEF Told, Tellable, EnqueueTick, HandleRemoveToUpload, Callback
<1>4. /\ Told(m, HandleComplete(m, r, hashed), r)
      /\ m.alive => HandleComplete(m, r, hashed).ticks > 0
  BY DEF Told, Tellable, EnqueueTick, HandleComplete, Callback
<1>5. Told(m, DecrementHashingCount(m), r) /\ (m.alive => DecrementHashingCount(m).ticks > 0)
  BY DEF Told, Tellable, EnqueueTick, DecrementHashingCount, Callback
<1>6. Told(m, DecrementUploadingCount(m), r) /\ (m.alive => DecrementUploadingCount(m).ticks > 0)
  BY DEF Told, Tellable, EnqueueTick, DecrementUploadingCount, Callback
<1>7. Told(m, IncrementHashingCount(m, r), r) /\ Told(m, IncrementUploadingCount(m, r), r)
  BY DEF Told, Tellable, IncrementHashingCount, IncrementUploadingCount, Callback
<1>. QED  BY <1>1, <1>2, <1>3, <1>4, <1>5, <1>6, <1>7

\* The changes of the count state and the exits of states.
LEMMA CountTells ==
    ASSUME NEW m, Tellable(m), NEW r, NEW x,
           NEW old \in {"None", "Hashing", "Uploading"},
           NEW new \in {"None", "Hashing", "Uploading"}
    PROVE  /\ Told(m, SetCountState(m, r, old, new), r)
           /\ Told(m, OnExit(m, r, x), r)
<1>. DEFINE left == CASE old = "None"      -> m
                      [] old = "Hashing"   -> DecrementHashingCount(m)
                      [] old = "Uploading" -> DecrementUploadingCount(m)
<1>0. Told(m, m, r)
  BY DEF Told, Tellable
<1>1. Told(m, left, r)
  <2>1. left \in {m, DecrementHashingCount(m), DecrementUploadingCount(m)}
    OBVIOUS
  <2>. QED  BY <1>0, <2>1, CallbacksTell
<1>2. SetCountState(m, r, old, new) \in
        {left, IncrementHashingCount(left, r), IncrementUploadingCount(left, r)}
  BY DEF SetCountState
<1>. HIDE DEF left
<1>3. Told(m, SetCountState(m, r, old, new), r)
  <2>1. Tellable(left)
    BY <1>1 DEF Told, Tellable
  <2>2. /\ Told(left, IncrementHashingCount(left, r), r)
        /\ Told(left, IncrementUploadingCount(left, r), r)
    BY <2>1, CallbacksTell
  <2>3. m.ticks \in Nat
    BY DEF Tellable
  <2>. QED  BY <1>1, <1>2, <2>2, <2>3, ToldTrans
<1>4. Told(m, OnExit(m, r, x), r)
  <2>1. OnExit(m, r, x) \in {m, HandleRemoveToHash(m, r), HandleRemoveToUpload(m, r)}
    BY DEF OnExit
  <2>. QED  BY <1>0, <2>1, CallbacksTell
<1>. QED  BY <1>3, <1>4

\* An upload whose key is set is a resumable one, and is polled when every
\* chunk is there.
KeyOK(v) ==
    /\ v.has_key => v.state \in {"UploadChunk", "PollUpload"} \cup Ended
    /\ v.state = "PollUpload" /\ v.has_key
         => \A c \in Chunks : v.chunk_states[c] = "Uploaded"

\* Upload r, whose state machine is v, accounts for its hash in
\* uploading_hashes_.
Uploads(m, v, r) == v.state \in Uploading \/ r \in m.enqueued_to_start_uploads

HashesOK(m, u) ==
    \A h \in m.uploading_hashes :
        \E r \in Requests : FileHash[r] = h /\ Uploads(m, u[r], r)

WaitInv ==
    /\ WakeOK(um)
    /\ HashesOK(um, up)
    /\ \A r \in Requests : KeyOK(up[r])

\* The parts of the manager that decide whether something waits.
SameWork(m, n) ==
    /\ SamePlaces(m, n) /\ SameQueues(m, n)
    /\ n.uploading_hashes = m.uploading_hashes
    /\ n.token_calls = m.token_calls
    /\ n.ticks = m.ticks

\* What a handler of upload r does to what waits.
Moved(r) ==
    /\ \A q \in Requests \ {r} : up'[q] = up[q]
    /\ KeyOK(up'[r])
    /\ Told(um, um', r)
    /\ um.alive => um'.ticks > 0 \/ SameWork(um, um')
    /\ Uploads(um, up[r], r) /\ FileHash[r] \in um'.uploading_hashes
         => Uploads(um', up'[r], r)

\* A manager is tellable.
LEMMA LooseTellable ==
    ASSUME NEW m \in LooseManager
    PROVE  Tellable(m)
BY DEF LooseManager, Tellable

\* Such a handler keeps the invariant.
LEMMA MovedKeeps ==
    ASSUME IInv, IInv', WaitInv, NEW r \in Requests, Moved(r)
    PROVE  WaitInv'
<1>1. WakeOK(um)'
  <2>1. CASE ~um.alive
    <3>1. um' = DeadManager
      BY <2>1 DEF Moved, Told, IInv, InvOf
    <3>. QED  BY <3>1, DeadWake
  <2>2. CASE um.alive /\ um'.ticks > 0
    <3>1. RetryArmed(um)
      BY DEF WaitInv, WakeOK
    <3>2. RetryArmed(um')
      BY <3>1 DEF Moved, Told, RetryArmed
    <3>. QED  BY <2>2, <3>2 DEF WakeOK, HashWaits, UploadWaits
  <2>3. CASE um.alive /\ SameWork(um, um')
    <3>1. /\ um'.alive = um.alive /\ um'.action_token_state = um.action_token_state
          /\ um'.token_current = um.token_current
          /\ um'.retry_wait = um.retry_wait /\ um'.retry_due = um.retry_due
      BY DEF Moved, Told
    <3>2. WakeOK(um)
      BY DEF WaitInv
    <3>3. Startable(um') = Startable(um) /\ (CanUploadMore(um') <=> CanUploadMore(um))
      BY <2>3 DEF SameWork, SamePlaces, SameQueues, Startable, CanUploadMore
    <3>4. UploadWaits(um') /\ RetryArmed(um')
      BY <2>3, <3>1, <3>2, <3>3
         DEF WakeOK, UploadWaits, RetryArmed, TokenAwaited, SameWork, SamePlaces
    <3>5. HashWaits(um')
      BY <2>3, <3>2 DEF WakeOK, HashWaits, SameWork, SamePlaces, SameQueues
    <3>. QED  BY <3>4, <3>5 DEF WakeOK
  <2>. QED  BY <2>1, <2>2, <2>3 DEF Moved
<1>2. HashesOK(um, up)'
  <2>. SUFFICES ASSUME NEW h \in um'.uploading_hashes
                PROVE  \E q \in Requests : FileHash[q] = h /\ Uploads(um', up'[q], q)
    BY DEF HashesOK
  <2>1. h \in um.uploading_hashes
    BY DEF Moved, Told
  <2>2. PICK q \in Requests : FileHash[q] = h /\ Uploads(um, up[q], q)
    BY <2>1 DEF WaitInv, HashesOK
  <2>3. CASE q = r
    BY <2>2, <2>3 DEF Moved
  <2>4. CASE q # r
    BY <2>2, <2>4 DEF Moved, Told, Uploads
  <2>. QED  BY <2>3, <2>4
<1>3. ASSUME NEW q \in Requests  PROVE  KeyOK(up'[q])
  <2>1. CASE q = r
    BY <2>1 DEF Moved
  <2>2. CASE q # r
    BY <2>2 DEF Moved, WaitInv
  <2>. QED  BY <2>1, <2>2
<1>4. \A q \in Requests : KeyOK(up[q])'
  BY <1>3
<1>. QED  BY <1>1, <1>2, <1>4 DEF WaitInv

\* The handler ends with the entry of a final state: the hash is erased if the
\* upload accounted for it.
LEMMA MovedCompleted ==
    ASSUME InvOf(um, up), NEW r \in Requests, NEW m, Told(um, m, r),
           NEW x \in Upload, NEW final \in Ended, NEW error,
           CompleteWith(r, m, x, final, error)
    PROVE  Moved(r)
<1>. DEFINE b == SetCountState(m, r, x.count_state, "None")
            v == [x EXCEPT !.state = final, !.count_state = "None", !.error = error]
<1>1. um \in LooseManager /\ up \in [Requests -> Upload] /\ Tellable(um)
  BY LooseTellable DEF InvOf
<1>2. um' = HandleComplete(b, r, HasHash(r)) /\ up' = [up EXCEPT ![r] = v]
  BY DEF CompleteWith
<1>3. Tellable(m)
  BY <1>1 DEF Told, Tellable
<1>4. Told(m, b, r)
  <2>1. x.count_state \in {"None", "Hashing", "Uploading"}
    BY DEF Upload
  <2>. QED  BY <1>3, <2>1, CountTells
<1>. HIDE DEF b
<1>5. Tellable(b) /\ b.alive = um.alive
  BY <1>3, <1>4 DEF Told, Tellable
<1>6. Told(b, um', r) /\ (b.alive => um'.ticks > 0)
  BY <1>2, <1>5, CallbacksTell
<1>7. Told(um, um', r)
  <2>1. um.ticks \in Nat
    BY <1>1 DEF Tellable
  <2>. QED  BY <1>4, <1>6, <2>1, ToldTrans
<1>8. v.state = final
  BY DEF Upload
<1>. HIDE DEF v
<1>9. up'[r] = v /\ \A q \in Requests \ {r} : up'[q] = up[q]
  BY <1>1, <1>2
<1>10. KeyOK(up'[r])
  BY <1>8, <1>9 DEF KeyOK, Ended
<1>11. ~(Uploads(um, up[r], r) /\ FileHash[r] \in um'.uploading_hashes)
  <2>1. CASE ~um.alive
    <3>1. um.uploading_hashes = {}
      BY <2>1 DEF InvOf, DeadManager, NewManager
    <3>. QED  BY <1>7, <3>1 DEF Told
  <2>2. CASE um.alive
    <3>1. SUFFICES ASSUME Uploads(um, up[r], r)  PROVE  FileHash[r] \notin um'.uploading_hashes
      OBVIOUS
    <3>2. PlacesOf(um, up[r], r)
      BY <2>2 DEF InvOf, PlacesOK
    <3>3. HasHash(r)
      BY <3>1, <3>2 DEF HasHash, Uploads, PlacesOf, Uploading
    <3>4. um' = EnqueueTick([b EXCEPT !.enqueued_to_start_hashings = @ \ {r},
                                      !.enqueued_to_start_uploads = @ \ {r},
                                      !.requests = @ \ {r},
                                      !.uploading_hashes = @ \ {FileHash[r]}])
      BY <1>2, <1>5, <2>2, <3>3 DEF HandleComplete, Callback
    <3>5. um'.uploading_hashes = b.uploading_hashes \ {FileHash[r]}
      BY <1>5, <3>4 DEF EnqueueTick, Tellable
    <3>. QED  BY <3>5
  <2>. QED  BY <2>1, <2>2
<1>. QED  BY <1>5, <1>6, <1>7, <1>9, <1>10, <1>11 DEF Moved

\* The handler changes its state machine to v and the manager to m.
LEMMA MovedTo ==
    ASSUME up \in [Requests -> Upload], NEW r \in Requests,
           Told(um, um', r), um.alive => um'.ticks > 0 \/ SameWork(um, um'),
           NEW v, up' = [up EXCEPT ![r] = v], KeyOK(v),
           Uploads(um, up[r], r) => Uploads(um', v, r)
    PROVE  Moved(r)
<1>1. up'[r] = v /\ \A q \in Requests \ {r} : up'[q] = up[q]
  OBVIOUS
<1>. QED  BY <1>1 DEF Moved

\* The handler leaves the manager alone.
LEMMA MovedAlone ==
    ASSUME InvOf(um, up), um' = um, NEW r \in Requests,
           NEW v, up' = [up EXCEPT ![r] = v], KeyOK(v),
           up[r].state \in Uploading => v.state \in Uploading
    PROVE  Moved(r)
<1>1. um \in LooseManager /\ up \in [Requests -> Upload] /\ Tellable(um)
  BY LooseTellable DEF InvOf
<1>2. Told(um, um', r) /\ SameWork(um, um')
  BY <1>1 DEF Told, Tellable, SameWork, SamePlaces, SameQueues
<1>3. Uploads(um, up[r], r) => Uploads(um', v, r)
  BY DEF Uploads
<1>. QED  BY <1>1, <1>2, <1>3, MovedTo

\* The handler ends in a state that waits and tells the manager nothing.
LEMMA MovedWaiting ==
    ASSUME InvOf(um, up), um' = um, NEW r \in Requests,
           NEW x \in Upload, NEW state, NEW c, WaitIn(r, x, state, c),
           x.has_key => state \in {"UploadChunk", "PollUpload"} \cup Ended,
           state = "PollUpload" /\ x.has_key
             => \A k \in Chunks : x.chunk_states[k] = "Uploaded",
           up[r].state \in Uploading => state \in Uploading
    PROVE  Moved(r)
<1>. DEFINE v == [x EXCEPT !.state = state, !.pending = @ \cup {c}]
<1>1. v.state = state /\ v.has_key = x.has_key /\ v.chunk_states = x.chunk_states
  BY DEF Upload
<1>2. up' = [up EXCEPT ![r] = v]
  BY DEF WaitIn
<1>. HIDE DEF v
<1>3. KeyOK(v)
  BY <1>1 DEF KeyOK
<1>. QED  BY <1>1, <1>2, <1>3, MovedAlone

\* ReadFile.
LEMMA MovedReading ==
    ASSUME InvOf(um, up), NEW r \in Requests,
           up[r].state \in {"WaitForHashSignal", "Hashing"},
           NEW m, Told(um, m, r), um.alive => m.ticks > 0 \/ SameWork(um, m),
           NEW x \in Upload, ~x.has_key, ReadFile(r, m, x)
    PROVE  Moved(r)
<1>1. um \in LooseManager /\ up \in [Requests -> Upload] /\ Tellable(um)
  BY LooseTellable DEF InvOf
<1>2. ~Uploads(um, up[r], r)
  <2>1. CASE um.alive
    <3>1. PlacesOf(um, up[r], r)
      BY <2>1 DEF InvOf, PlacesOK
    <3>. QED  BY <3>1 DEF PlacesOf, Uploads, Uploading
  <2>2. CASE ~um.alive
    BY <2>2 DEF InvOf, DeadManager, NewManager, Uploads, Uploading
  <2>. QED  BY <2>1, <2>2
<1>3. CASE WaitIn(r, x, "Hashing", "ReadNext") /\ um' = m
  <2>. DEFINE v == [x EXCEPT !.state = "Hashing", !.pending = @ \cup {"ReadNext"}]
  <2>1. KeyOK(v)
    <3>1. v.has_key = x.has_key
      BY DEF Upload
    <3>. QED  BY <3>1 DEF KeyOK
  <2>2. up' = [up EXCEPT ![r] = v]
    BY <1>3 DEF WaitIn
  <2>. HIDE DEF v
  <2>. QED  BY <1>1, <1>2, <1>3, <2>1, <2>2, MovedTo
<1>4. CASE /\ up' = [up EXCEPT ![r] = [x EXCEPT !.state = "WaitForUploadSignal"]]
           /\ um' = HandleAddToUpload(m, r)
  <2>. DEFINE v == [x EXCEPT !.state = "WaitForUploadSignal"]
  <2>1. KeyOK(v)
    <3>1. v.has_key = x.has_key
      BY DEF Upload
    <3>. QED  BY <3>1 DEF KeyOK
  <2>2. Tellable(m) /\ m.alive = um.alive
    BY <1>1 DEF Told, Tellable
  <2>3. Told(m, um', r) /\ (m.alive => um'.ticks > 0)
    BY <1>4, <2>2, CallbacksTell
  <2>4. Told(um, um', r)
    <3>1. um.ticks \in Nat
      BY <1>1 DEF Tellable
    <3>. QED  BY <2>3, <3>1, ToldTrans
  <2>5. up' = [up EXCEPT ![r] = v]
    BY <1>4
  <2>. HIDE DEF v
  <2>. QED  BY <1>1, <1>2, <2>1, <2>2, <2>3, <2>4, <2>5, MovedTo
<1>5. CASE CompleteWithError(r, m, x, "Failed")
  BY <1>5, MovedCompleted DEF CompleteWithError, Ended
<1>. QED  BY <1>3, <1>4, <1>5 DEF ReadFile

\* DoChunkUpload: the file is polled when it has a key and no chunk to send,
\* and the chunk that was on its way is marked on the entry of the state.
LEMMA MovedChunks ==
    ASSUME InvOf(um, up), NEW r \in Requests, NEW x \in Upload,
           NEW done \in SUBSET Chunks,
           x.has_key => done = {c \in Chunks : x.chunk_states[c] = "Uploading"},
           DoChunkUpload(r, x, done)
    PROVE  Moved(r)
<1>. DEFINE Entered(cs) == UploadChunkEntry([x EXCEPT !.chunk_states = cs], done)
            CS == [Chunks -> {"NeedsUpload", "Uploading", "Uploaded"}]
<1>1. ASSUME NEW cs \in CS
      PROVE  /\ Entered(cs) \in Upload
             /\ x.has_key => Entered(cs).chunk_states =
                               [k \in Chunks |-> IF k \in done THEN "Uploaded" ELSE cs[k]]
  <2>. DEFINE ds == [k \in Chunks |-> IF k \in done THEN "Uploaded" ELSE cs[k]]
              h == x.has_key \/ done # {}
  <2>1. ds \in CS /\ h \in BOOLEAN
    BY DEF Upload
  <2>2. Entered(cs) = [x EXCEPT !.chunk_states = ds, !.has_key = h]
    BY DEF UploadChunkEntry, Upload
  <2>3. Entered(cs) \in Upload /\ Entered(cs).chunk_states = ds
    <3>. HIDE DEF ds, h, Entered
    <3>. QED  BY <2>1, <2>2 DEF Upload
  <2>. QED  BY <2>3
<1>2. x.chunk_states \in CS
  BY DEF Upload
<1>3. ASSUME NEW c \in Chunks,
             WaitIn(r, Entered([x.chunk_states EXCEPT ![c] = "Uploading"]),
                    "UploadChunk", "chunk"),
             UNCHANGED um
      PROVE  Moved(r)
  <2>. DEFINE e == Entered([x.chunk_states EXCEPT ![c] = "Uploading"])
  <2>1. [x.chunk_states EXCEPT ![c] = "Uploading"] \in CS
    BY <1>2
  <2>2. e \in Upload /\ WaitIn(r, e, "UploadChunk", "chunk") /\ um' = um
    BY <1>1, <1>3, <2>1
  <2>. HIDE DEF e
  <2>. QED  BY <2>2, MovedWaiting DEF Uploading
<1>. DEFINE f == Entered(x.chunk_states)
            needed == {c \in Chunks : x.chunk_states[c] = "NeedsUpload"}
<1>4. /\ f \in Upload
      /\ x.has_key => f.chunk_states =
            [k \in Chunks |-> IF k \in done THEN "Uploaded" ELSE x.chunk_states[k]]
  BY <1>1, <1>2
<1>5. \/ \E c \in Chunks :
           /\ WaitIn(r, Entered([x.chunk_states EXCEPT ![c] = "Uploading"]),
                     "UploadChunk", "chunk")
           /\ UNCHANGED um
      \/ CompleteWithError(r, um, f, "Failed")
      \/ /\ needed = {} /\ x.has_key
         /\ WaitIn(r, f, "PollUpload", "poll") /\ UNCHANGED um
      \/ CompleteWithError(r, um, f, "LogicError")
  BY DEF DoChunkUpload
<1>. HIDE DEF f
<1>6. Told(um, um, r)
  BY LooseTellable DEF InvOf, Told, Tellable
<1>7. CASE CompleteWithError(r, um, f, "Failed") \/ CompleteWithError(r, um, f, "LogicError")
  BY <1>4, <1>6, <1>7, MovedCompleted DEF CompleteWithError, Ended
<1>8. CASE /\ needed = {} /\ x.has_key
           /\ WaitIn(r, f, "PollUpload", "poll") /\ UNCHANGED um
  <2>1. ASSUME NEW k \in Chunks  PROVE  f.chunk_states[k] = "Uploaded"
    <3>1. x.chunk_states[k] \in {"NeedsUpload", "Uploading", "Uploaded"}
      BY <1>2
    <3>2. x.chunk_states[k] # "NeedsUpload"
      BY <1>8
    <3>3. x.chunk_states[k] = "Uploading" => k \in done
      BY <1>8
    <3>4. f.chunk_states[k] = IF k \in done THEN "Uploaded" ELSE x.chunk_states[k]
      BY <1>4, <1>8
    <3>. QED  BY <3>1, <3>2, <3>3, <3>4
  <2>. QED  BY <1>4, <1>8, <2>1, MovedWaiting DEF Uploading
<1>. QED  BY <1>3, <1>5, <1>7, <1>8

\* Taking a start event out of the posted ones changes nothing that waits.
LEMMA DropTold ==
    ASSUME NEW m \in LooseManager, NEW e, NEW r
    PROVE  LET d == [m EXCEPT !.starts = @ \ {e}]
           IN  Told(m, d, r) /\ SameWork(m, d)
<1>. DEFINE d == [m EXCEPT !.starts = @ \ {e}]
<1>1. Told(m, d, r)
  BY DEF Told, LooseManager
<1>2. SamePlaces(m, d) /\ SameQueues(m, d)
  BY DEF SamePlaces, SameQueues, LooseManager
<1>3. d.uploading_hashes = m.uploading_hashes /\ d.token_calls = m.token_calls /\ d.ticks = m.ticks
  BY DEF LooseManager
<1>. QED  BY <1>1, <1>2, <1>3 DEF SameWork

\* A start leaves its queue, which ticks, and then takes its place.
LEMMA StartTold ==
    ASSUME NEW m, Tellable(m), m.alive, NEW d, NEW r, Told(m, d, r),
           NEW old \in {"None", "Hashing", "Uploading"},
           NEW new \in {"None", "Hashing", "Uploading"},
           NEW e \in {HandleRemoveToHash(d, r), HandleRemoveToUpload(d, r)}
    PROVE  LET n == SetCountState(e, r, old, new) IN Told(m, n, r) /\ n.ticks > 0
<1>. DEFINE n == SetCountState(e, r, old, new)
<1>1. Tellable(d) /\ d.alive /\ m.ticks \in Nat
  BY DEF Told, Tellable
<1>2. Told(d, e, r) /\ e.ticks > 0
  BY <1>1, CallbacksTell
<1>3. Tellable(e)
  BY <1>1, <1>2 DEF Told, Tellable
<1>4. Told(e, n, r)
  BY <1>3, CountTells
<1>. HIDE DEF n
<1>5. Told(m, n, r)
  <2>1. Told(m, e, r)
    BY <1>1, <1>2, ToldTrans
  <2>. QED  BY <1>1, <1>4, <2>1, ToldTrans
<1>6. n.ticks > 0
  BY <1>2, <1>3, <1>4 DEF Told, Tellable
<1>. QED  BY <1>5, <1>6 DEF n

\* The handlers of a state machine.
LEMMA HandlersMove ==
    ASSUME IInv, WaitInv, NEW r \in Requests,
           \/ ModifyUpload(r)
           \/ StartHash(r)
           \/ ReadNext(r)
           \/ StartUpload(r)
           \/ \E event \in ErrorEvents : ErrorEvent(r, event)
           \/ CheckResponse(r)
           \/ InstantResponse(r)
           \/ SimpleResponse(r)
           \/ ChunkResponse(r)
           \/ \E finished \in BOOLEAN : PollResponse(r, finished)
           \/ RetryPoll(r)
    PROVE  Moved(r)
<1>1. /\ InvOf(um, up) /\ up \in [Requests -> Upload] /\ um \in LooseManager
      /\ Tellable(um)
  BY LooseTellable DEF IInv, InvOf
<1>2. /\ up[r] \in Upload /\ up[r].state \in States
      /\ "ReadNext" \in up[r].pending => up[r].state = "Hashing"
  BY <1>1 DEF InvOf, Upload, UploadOK
<1>3. KeyOK(up[r])
  BY DEF WaitInv
<1>4. <<"StartHash", r>> \in um.starts \/ <<"StartUpload", r>> \in um.starts => um.alive
  BY <1>1 DEF InvOf, DeadManager, NewManager
<1>5. \A c : /\ Without(r, c) \in Upload
             /\ Without(r, c).state = up[r].state
             /\ Without(r, c).has_key = up[r].has_key
             /\ Without(r, c).chunk_states = up[r].chunk_states
  <2>1. \A c : Without(r, c).has_key = up[r].has_key
    BY <1>2 DEF Without, Upload
  <2>. QED  BY <1>1, <2>1, WithoutFacts
<1>6. Told(um, um, r) /\ SameWork(um, um)
  BY <1>1 DEF Told, Tellable, SameWork, SamePlaces, SameQueues
<1>7. ASSUME NEW c, Ignored(r, c)  PROVE  Moved(r)
  <2>1. up' = [up EXCEPT ![r] = Without(r, c)] /\ um' = um
    BY <1>7 DEF Ignored
  <2>2. KeyOK(Without(r, c))
    BY <1>3, <1>5 DEF KeyOK
  <2>. QED  BY <1>1, <1>5, <2>1, <2>2, MovedAlone
<1>8. CASE ModifyUpload(r)
  <2>. DEFINE v == [up[r] EXCEPT !.pending = @ \cup {"Error"}]
  <2>1. v.state = up[r].state /\ v.has_key = up[r].has_key /\ v.chunk_states = up[r].chunk_states
    BY <1>2 DEF Upload
  <2>2. up' = [up EXCEPT ![r] = v] /\ um' = um
    BY <1>1, <1>8 DEF ModifyUpload
  <2>. HIDE DEF v
  <2>3. KeyOK(v)
    BY <1>3, <2>1 DEF KeyOK
  <2>. QED  BY <1>1, <2>1, <2>2, <2>3, MovedAlone
<1>9. CASE StartHash(r)
  <2>. DEFINE d == [um EXCEPT !.starts = @ \ {<<"StartHash", r>>}]
              n == SetCountState(HandleRemoveToHash(d, r), r, "None", "Hashing")
              v == [up[r] EXCEPT !.state = "Hashing", !.count_state = "Hashing"]
  <2>1. Told(um, d, r) /\ SameWork(um, d)
    BY <1>1, DropTold
  <2>2. CASE up[r].state = "WaitForHashSignal" /\ ReadFile(r, n, v)
    <3>1. um.alive
      BY <1>4, <1>9 DEF StartHash
    <3>2. v \in Upload
      BY <1>2 DEF Upload, States
    <3>3. ~v.has_key
      BY <1>2, <1>3, <2>2 DEF Upload, KeyOK, Ended
    <3>. HIDE DEF v, d
    <3>4. Told(um, n, r) /\ n.ticks > 0
      BY <1>1, <2>1, <3>1, StartTold
    <3>. HIDE DEF n
    <3>. QED  BY <1>1, <2>2, <3>2, <3>3, <3>4, MovedReading
  <2>3. CASE um' = d /\ UNCHANGED up
    <3>. HIDE DEF d
    <3>1. up' = [up EXCEPT ![r] = up[r]]
      BY <1>1, <2>3
    <3>2. Uploads(um, up[r], r) => Uploads(um', up[r], r)
      BY <2>1, <2>3 DEF Uploads, SameWork, SamePlaces
    <3>. QED  BY <1>1, <1>3, <2>1, <2>3, <3>1, <3>2, MovedTo
  <2>. QED  BY <1>9, <2>2, <2>3 DEF StartHash
<1>10. CASE ReadNext(r)
  <2>. DEFINE x == Without(r, "ReadNext")
  <2>1. up[r].state = "Hashing" /\ ReadFile(r, um, x)
    BY <1>2, <1>10 DEF ReadNext
  <2>2. x \in Upload /\ ~x.has_key
    BY <1>3, <1>5, <2>1 DEF KeyOK, Ended
  <2>. HIDE DEF x
  <2>. QED  BY <1>1, <1>6, <2>1, <2>2, MovedReading
<1>11. CASE StartUpload(r)
  <2>. DEFINE d == [um EXCEPT !.starts = @ \ {<<"StartUpload", r>>}]
              n == SetCountState(HandleRemoveToUpload(d, r), r, up[r].count_state, "Uploading")
              x == [up[r] EXCEPT !.count_state = "Uploading"]
              v == [x EXCEPT !.state = "InUploadCheck", !.pending = @ \cup {"check"}]
  <2>1. Told(um, d, r) /\ SameWork(um, d)
    BY <1>1, DropTold
  <2>2. CASE up[r].state = "WaitForUploadSignal" /\ um' = n /\ up' = [up EXCEPT ![r] = v]
    <3>1. um.alive
      BY <1>4, <1>11 DEF StartUpload
    <3>2. v.state = "InUploadCheck" /\ v.has_key = up[r].has_key
      BY <1>2 DEF Upload
    <3>. HIDE DEF v, d
    <3>3. Told(um, n, r) /\ n.ticks > 0
      <4>1. up[r].count_state \in {"None", "Hashing", "Uploading"}
        BY <1>2 DEF Upload
      <4>. QED  BY <1>1, <2>1, <3>1, <4>1, StartTold
    <3>. HIDE DEF n
    <3>4. KeyOK(v)
      BY <1>3, <2>2, <3>2 DEF KeyOK, Ended
    <3>5. Uploads(um', v, r)
      BY <3>2 DEF Uploads, Uploading
    <3>. QED  BY <1>1, <2>2, <3>3, <3>4, <3>5, MovedTo
  <2>3. CASE um' = d /\ UNCHANGED up
    <3>. HIDE DEF d
    <3>1. up' = [up EXCEPT ![r] = up[r]]
      BY <1>1, <2>3
    <3>2. Uploads(um, up[r], r) => Uploads(um', up[r], r)
      BY <2>1, <2>3 DEF Uploads, SameWork, SamePlaces
    <3>. QED  BY <1>1, <1>3, <2>1, <2>3, <3>1, <3>2, MovedTo
  <2>. QED  BY <1>11, <2>2, <2>3 DEF StartUpload, WaitIn
<1>12. ASSUME NEW event \in ErrorEvents, ErrorEvent(r, event)
       PROVE  Moved(r)
  <2>. DEFINE x == Without(r, event)
  <2>1. CASE CompleteWithError(r, OnExit(um, r, x), x, "Failed")
    <3>1. x \in Upload
      BY <1>5
    <3>. HIDE DEF x
    <3>2. Told(um, OnExit(um, r, x), r)
      BY <1>1, CountTells
    <3>. QED  BY <1>1, <2>1, <3>1, <3>2, MovedCompleted DEF CompleteWithError, Ended
  <2>. QED  BY <1>7, <1>12, <2>1 DEF ErrorEvent
<1>13. ASSUME NEW x \in Upload, NEW error,
              CompleteWithError(r, um, x, error) \/ CompleteWithSuccess(r, um, x)
       PROVE  Moved(r)
  BY <1>1, <1>6, <1>13, MovedCompleted DEF CompleteWithError, CompleteWithSuccess, Ended
<1>14. CASE CheckResponse(r)
  <2>. DEFINE x == Without(r, "check")
              cs(have) == [c \in Chunks |-> IF c \in have THEN "Uploaded" ELSE "NeedsUpload"]
              y(have) == [x EXCEPT !.chunk_states = cs(have)]
  <2>1. CASE Ignored(r, "check")
    BY <1>7, <2>1
  <2>2. CASE /\ up[r].state = "InUploadCheck"
             /\ \/ CompleteWithError(r, um, x, "Failed")
                \/ CompleteWithSuccess(r, um, x)
                \/ WaitIn(r, x, "InstantUpload", "instant") /\ UNCHANGED um
                \/ DoSimpleUpload(r, x)
                \/ \E have \in SUBSET Chunks : DoChunkUpload(r, y(have), {})
    <3>1. x \in Upload /\ ~x.has_key
      BY <1>3, <1>5, <2>2 DEF KeyOK, Ended
    <3>2. ASSUME NEW have \in SUBSET Chunks, DoChunkUpload(r, y(have), {})
          PROVE  Moved(r)
      <4>. HIDE DEF x
      <4>1. cs(have) \in [Chunks -> {"NeedsUpload", "Uploading", "Uploaded"}]
        OBVIOUS
      <4>. HIDE DEF cs
      <4>2. y(have) \in Upload /\ ~y(have).has_key
        BY <3>1, <4>1 DEF Upload
      <4>. HIDE DEF y
      <4>. QED  BY <1>1, <3>2, <4>2, MovedChunks
    <3>. HIDE DEF x, y
    <3>3. CASE CompleteWithError(r, um, x, "Failed") \/ CompleteWithSuccess(r, um, x)
      BY <1>13, <3>1, <3>3
    <3>4. CASE WaitIn(r, x, "InstantUpload", "instant") /\ UNCHANGED um
      BY <1>1, <3>1, <3>4, MovedWaiting DEF Uploading
    <3>5. CASE WaitIn(r, x, "UploadFile", "simple") /\ UNCHANGED um
      BY <1>1, <3>1, <3>5, MovedWaiting DEF Uploading
    <3>. QED  BY <2>2, <3>2, <3>3, <3>4, <3>5 DEF DoSimpleUpload
  <2>. QED  BY <1>14, <2>1, <2>2 DEF CheckResponse
<1>15. CASE InstantResponse(r)
  <2>1. CASE Ignored(r, "instant")
    BY <1>7, <2>1
  <2>. QED  BY <1>5, <1>13, <1>15, <2>1 DEF InstantResponse
<1>16. CASE SimpleResponse(r)
  <2>. DEFINE x == Without(r, "simple")
  <2>1. CASE Ignored(r, "simple")
    BY <1>7, <2>1
  <2>2. CASE /\ up[r].state = "UploadFile"
             /\ \/ WaitIn(r, x, "PollUpload", "poll") /\ UNCHANGED um
                \/ CompleteWithError(r, um, x, "Failed")
    <3>1. x \in Upload /\ ~x.has_key
      BY <1>3, <1>5, <2>2 DEF KeyOK, Ended
    <3>. HIDE DEF x
    <3>2. CASE WaitIn(r, x, "PollUpload", "poll") /\ UNCHANGED um
      BY <1>1, <3>1, <3>2, MovedWaiting DEF Uploading
    <3>. QED  BY <1>13, <2>2, <3>1, <3>2
  <2>. QED  BY <1>16, <2>1, <2>2 DEF SimpleResponse
<1>17. CASE ChunkResponse(r)
  <2>. DEFINE x == Without(r, "chunk")
              done == {c \in Chunks : x.chunk_states[c] = "Uploading"}
  <2>1. CASE Ignored(r, "chunk")
    BY <1>7, <2>1
  <2>2. CASE DoChunkUpload(r, x, done)
    <3>1. x \in Upload
      BY <1>5
    <3>. HIDE DEF x
    <3>. QED  BY <1>1, <2>2, <3>1, MovedChunks
  <2>3. CASE CompleteWithError(r, um, x, "Failed")
    BY <1>5, <1>13, <2>3
  <2>. QED  BY <1>17, <2>1, <2>2, <2>3 DEF ChunkResponse
<1>18. ASSUME NEW finished \in BOOLEAN, PollResponse(r, finished)
       PROVE  Moved(r)
  <2>. DEFINE x == Without(r, "poll")
  <2>1. CASE Ignored(r, "poll")
    BY <1>7, <2>1
  <2>2. CASE WaitIn(r, x, up[r].state, "poll_timer") /\ UNCHANGED um
    <3>1. /\ x \in Upload
          /\ x.has_key => up[r].state \in {"UploadChunk", "PollUpload"} \cup Ended
          /\ up[r].state = "PollUpload" /\ x.has_key
               => \A k \in Chunks : x.chunk_states[k] = "Uploaded"
      BY <1>3, <1>5 DEF KeyOK
    <3>. HIDE DEF x
    <3>. QED  BY <1>1, <2>2, <3>1, MovedWaiting
  <2>3. CASE CompleteWithError(r, um, x, "Failed") \/ CompleteWithSuccess(r, um, x)
    BY <1>5, <1>13, <2>3
  <2>. QED  BY <1>18, <2>1, <2>2, <2>3 DEF PollResponse
<1>19. CASE RetryPoll(r)
  <2>. DEFINE x == Without(r, "poll_timer")
  <2>1. WaitIn(r, x, up[r].state, "poll") /\ UNCHANGED um
    BY <1>19 DEF RetryPoll
  <2>2. /\ x \in Upload
        /\ x.has_key => up[r].state \in {"UploadChunk", "PollUpload"} \cup Ended
        /\ up[r].state = "PollUpload" /\ x.has_key
             => \A k \in Chunks : x.chunk_states[k] = "Uploaded"
    BY <1>3, <1>5 DEF KeyOK
  <2>. HIDE DEF x
  <2>. QED  BY <1>1, <2>1, <2>2, MovedWaiting
<1>. QED  BY <1>8, <1>9, <1>10, <1>11, <1>12, <1>14, <1>15, <1>16, <1>17, <1>18, <1>19

\* A hash that Tick adds is the one of the upload that it is about to start.
LEMMA TickHashes ==
    ASSUME NEW m \in LooseManager, NEW u, HashesOK(m, u)
    PROVE  HashesOK(Tick(m), u)
<1>. DEFINE a == Tick_StartUploads(m)
            n == Tick_StartHashings(a)
            Same(x, y) == /\ y.uploading_hashes = x.uploading_hashes
                          /\ y.enqueued_to_start_uploads = x.enqueued_to_start_uploads
<1>1. ASSUME NEW x, NEW y, HashesOK(x, u), Same(x, y)  PROVE  HashesOK(y, u)
  BY <1>1 DEF HashesOK, Uploads
<1>2. HashesOK(a, u) /\ DOMAIN a = DOMAIN m
  <2>1. CASE a = m
    BY <2>1
  <2>2. CASE a = RequestActionToken(m)
    <3>1. Same(m, a) /\ DOMAIN a = DOMAIN m
      BY <2>2 DEF RequestActionToken, LooseManager
    <3>. HIDE DEF a, Same
    <3>. QED  BY <1>1, <3>1
  <2>3. CASE a = StartFirstUpload(m) /\ Startable(m) # {}
    <3>. DEFINE i == SelectInSeq(m.to_upload, LAMBDA r : FileHash[r] \notin m.uploading_hashes)
                r == m.to_upload[i]
    <3>1. m.to_upload \in Seq(Requests) /\ \E q \in ToSet(m.to_upload) : FileHash[q] \notin m.uploading_hashes
      BY <2>3 DEF LooseManager, Startable
    <3>2. i \in 1..Len(m.to_upload)
      BY <3>1, FirstMatch DEF SelectInSeq
    <3>3. r \in Requests
      <4>. HIDE DEF i
      <4>. QED  BY <3>1, <3>2
    <3>4. /\ a.uploading_hashes = m.uploading_hashes \cup {FileHash[r]}
          /\ a.enqueued_to_start_uploads = m.enqueued_to_start_uploads \cup {r}
          /\ DOMAIN a = DOMAIN m
      BY <2>3 DEF StartFirstUpload, LooseManager
    <3>. HIDE DEF a, r
    <3>5. ASSUME NEW h \in a.uploading_hashes
          PROVE  \E q \in Requests : FileHash[q] = h /\ Uploads(a, u[q], q)
      <4>1. CASE h = FileHash[r]
        BY <3>3, <3>4, <4>1 DEF Uploads
      <4>2. CASE h \in m.uploading_hashes
        BY <3>4, <4>2 DEF HashesOK, Uploads
      <4>. QED  BY <3>4, <4>1, <4>2
    <3>. QED  BY <3>4, <3>5 DEF HashesOK
  <2>. QED  BY <2>1, <2>2, <2>3 DEF Tick_StartUploads
<1>3. Tick(m) = n
  BY DEF Tick
<1>. HIDE DEF a
<1>4. Same(a, n)
  BY <1>2 DEF Tick_StartHashings, LooseManager
<1>. HIDE DEF n, Same
<1>. QED  BY <1>1, <1>2, <1>3, <1>4

\* Managers of the same places, queues and hashes have the same to wait for.
LEMMA SameReady ==
    ASSUME NEW m, NEW n \in LooseManager, QueueReady(m), SamePlaces(m, n), SameQueues(m, n)
    PROVE  QueueReady(n)
BY DEF QueueReady, QueuesOK, SamePlaces, SameQueues

\* Managers of the same places and hashes account for the same hashes.
LEMMA SameHashes ==
    ASSUME NEW m, NEW n, NEW u, HashesOK(m, u), SamePlaces(m, n),
           n.uploading_hashes = m.uploading_hashes
    PROVE  HashesOK(n, u)
BY DEF HashesOK, Uploads, SamePlaces

\* The handlers of the manager.
LEMMA ManagerWaits ==
    ASSUME IInv, WaitInv,
           \/ Destroy
           \/ TickHandler
           \/ ActionTokenRetry
           \/ RetryTimerExpires
           \/ TokenExpires
           \/ \E granted \in BOOLEAN : HandleActionToken(granted)
           \/ \E r \in Requests : \E readable \in BOOLEAN : Add(r, readable)
    PROVE  WaitInv'
<1>1. /\ InvOf(um, up) /\ up \in [Requests -> Upload] /\ um \in LooseManager
  BY DEF IInv, InvOf
<1>2. \/ um.ticks > 0 \/ um.token_calls > 0 \/ um.retry_due \/ um.retry_wait
      \/ um.action_token_state = "Valid"
      => um.alive
  BY <1>1 DEF InvOf, DeadManager, NewManager
<1>3. um.alive => QueueReady(um)
  BY <1>1, QueueIsReady
<1>4. WakeOK(um) /\ HashesOK(um, up) /\ \A r \in Requests : KeyOK(up[r])
  BY DEF WaitInv
<1>5. CASE Destroy
  <2>1. um' = DeadManager /\ um'.uploading_hashes = {}
    BY <1>5 DEF Destroy, DeadManager, NewManager
  <2>2. ASSUME NEW r \in Requests  PROVE  KeyOK(up'[r])
    <3>1. CASE up'[r] = up[r]
      BY <1>4, <3>1
    <3>2. CASE up'[r] = [up[r] EXCEPT !.state = "CompleteWithError",
                                      !.count_state = "None", !.error = "Failed"]
      <4>1. up'[r].state = "CompleteWithError"
        BY <1>1, <3>2 DEF Upload
      <4>. QED  BY <4>1 DEF KeyOK, Ended
    <3>. QED  BY <1>5, <3>1, <3>2 DEF Destroy
  <2>3. WakeOK(um')
    BY <2>1, DeadWake
  <2>. QED  BY <2>1, <2>2, <2>3 DEF WaitInv, HashesOK
\* A Tick of a manager that differs in what Tick establishes anyway.
<1>6. ASSUME NEW n \in LooseManager, um.alive, SamePlaces(um, n), SameQueues(um, n),
             n.uploading_hashes = um.uploading_hashes, RetryArmed(n),
             um' = Tick(n), up' = up
      PROVE  WaitInv'
  <2>1. QueueReady(n)
    BY <1>3, <1>6, SameReady
  <2>2. WakeOK(um')
    BY <1>6, <2>1, TickWake
  <2>3. HashesOK(um', up)
    <3>1. HashesOK(n, up)
      BY <1>4, <1>6, SameHashes
    <3>. QED  BY <1>6, <3>1, TickHashes
  <2>. QED  BY <1>4, <1>6, <2>2, <2>3 DEF WaitInv
\* A manager that differs in the token and its timer.
<1>7. ASSUME NEW n \in LooseManager, um.alive, SamePlaces(um, n), SameQueues(um, n),
             n.uploading_hashes = um.uploading_hashes, n.ticks = um.ticks,
             RetryArmed(n), TokenAwaited(um) => TokenAwaited(n),
             um' = n, up' = up
      PROVE  WaitInv'
  <2>1. HashesOK(um', up)
    BY <1>4, <1>7, SameHashes
  <2>2. Startable(n) = Startable(um) /\ (CanUploadMore(n) <=> CanUploadMore(um))
    BY <1>7 DEF SamePlaces, SameQueues, Startable, CanUploadMore
  <2>3. UploadWaits(n)
    BY <1>4, <1>7, <2>2 DEF WakeOK, UploadWaits, SamePlaces
  <2>4. HashWaits(n)
    BY <1>4, <1>7 DEF WakeOK, HashWaits, SamePlaces, SameQueues
  <2>5. WakeOK(um')
    BY <1>7, <2>3, <2>4 DEF WakeOK
  <2>. QED  BY <1>4, <1>7, <2>1, <2>5 DEF WaitInv
<1>8. CASE TickHandler
  <2>. DEFINE t == um.ticks - 1
              n == [um EXCEPT !.ticks = t]
  <2>1. um.alive /\ t \in Nat /\ um' = Tick(n) /\ up' = up
    BY <1>1, <1>2, <1>8 DEF TickHandler, LooseManager
  <2>. HIDE DEF t
  <2>2. n \in LooseManager
    BY <1>1, <2>1 DEF LooseManager
  <2>3. SamePlaces(um, n) /\ SameQueues(um, n)
    BY <1>1 DEF LooseManager, SamePlaces, SameQueues
  <2>4. n.uploading_hashes = um.uploading_hashes /\ RetryArmed(n)
    BY <1>1, <1>4 DEF LooseManager, WakeOK, RetryArmed
  <2>. HIDE DEF n
  <2>. QED  BY <1>6, <2>1, <2>2, <2>3, <2>4
<1>9. CASE ActionTokenRetry
  <2>. DEFINE m == [um EXCEPT !.retry_due = FALSE]
              n == [m EXCEPT !.action_token_state = "Invalid"]
  <2>1. /\ um.alive /\ up' = up
        /\ (um.action_token_state # "Error" /\ um' = m) \/ um' = Tick(n)
    BY <1>1, <1>2, <1>9 DEF ActionTokenRetry, LooseManager
  <2>2. m \in LooseManager /\ n \in LooseManager
    BY <1>1 DEF LooseManager
  <2>3. SamePlaces(um, m) /\ SameQueues(um, m)
    BY <1>1 DEF LooseManager, SamePlaces, SameQueues
  <2>4. SamePlaces(um, n) /\ SameQueues(um, n)
    BY <1>1 DEF LooseManager, SamePlaces, SameQueues
  <2>5. n.uploading_hashes = um.uploading_hashes /\ n.action_token_state = "Invalid"
    BY <1>1 DEF LooseManager
  <2>6. /\ m.uploading_hashes = um.uploading_hashes /\ m.ticks = um.ticks
        /\ m.token_calls = um.token_calls
        /\ m.action_token_state = um.action_token_state
    BY <1>1 DEF LooseManager
  <2>. HIDE DEF m, n
  <2>7. CASE um' = Tick(n)
    BY <1>6, <2>1, <2>2, <2>4, <2>5, <2>7 DEF RetryArmed
  <2>8. CASE um.action_token_state # "Error" /\ um' = m
    BY <1>7, <2>1, <2>2, <2>3, <2>6, <2>8 DEF RetryArmed, TokenAwaited
  <2>. QED  BY <2>1, <2>7, <2>8
<1>10. CASE RetryTimerExpires
  <2>. DEFINE c == um.token_current /\ um.action_token_state # "Error"
              n == [um EXCEPT !.retry_wait = FALSE, !.retry_due = TRUE, !.token_current = c]
  <2>1. um.alive /\ um' = n /\ up' = up /\ c \in BOOLEAN
    BY <1>2, <1>10 DEF RetryTimerExpires
  <2>. HIDE DEF c
  <2>2. n \in LooseManager
    BY <1>1, <2>1 DEF LooseManager
  <2>3. SamePlaces(um, n) /\ SameQueues(um, n)
    BY <1>1 DEF LooseManager, SamePlaces, SameQueues
  <2>4. /\ n.uploading_hashes = um.uploading_hashes /\ n.ticks = um.ticks
        /\ n.token_calls = um.token_calls /\ n.retry_due
        /\ n.action_token_state = um.action_token_state
    BY <1>1 DEF LooseManager
  <2>. HIDE DEF n
  <2>. QED  BY <1>7, <2>1, <2>2, <2>3, <2>4 DEF RetryArmed, TokenAwaited
<1>11. CASE TokenExpires
  <2>. DEFINE n == [um EXCEPT !.token_current = FALSE]
  <2>1. um.alive /\ um' = n /\ up' = up
    BY <1>2, <1>11 DEF TokenExpires
  <2>2. n \in LooseManager
    BY <1>1 DEF LooseManager
  <2>3. SamePlaces(um, n) /\ SameQueues(um, n)
    BY <1>1 DEF LooseManager, SamePlaces, SameQueues
  <2>4. /\ n.uploading_hashes = um.uploading_hashes /\ n.ticks = um.ticks
        /\ n.token_calls = um.token_calls /\ ~n.token_current
        /\ n.action_token_state = um.action_token_state
        /\ n.retry_wait = um.retry_wait /\ n.retry_due = um.retry_due
    BY <1>1 DEF LooseManager
  <2>. HIDE DEF n
  <2>. QED  BY <1>7, <2>1, <2>2, <2>3, <2>4 DEF RetryArmed, TokenAwaited
<1>12. ASSUME NEW granted \in BOOLEAN, HandleActionToken(granted)
       PROVE  WaitInv'
  <2>. DEFINE t == um.token_calls - 1
              m == [um EXCEPT !.token_calls = t, !.token_current = TRUE]
              a == [m EXCEPT !.action_token_state = "Valid"]
              b == [m EXCEPT !.action_token_state = "Error", !.retry_wait = TRUE]
  <2>1. /\ um.alive /\ up' = up /\ t \in Nat
        /\ um' = Tick(a) \/ um' = b
    BY <1>1, <1>2, <1>12 DEF HandleActionToken, LooseManager
  <2>. HIDE DEF t
  <2>2. m \in LooseManager
    BY <1>1, <2>1 DEF LooseManager
  <2>3. SamePlaces(um, m) /\ SameQueues(um, m)
    BY <1>1 DEF LooseManager, SamePlaces, SameQueues
  <2>4. m.uploading_hashes = um.uploading_hashes /\ m.ticks = um.ticks
    BY <1>1 DEF LooseManager
  <2>. HIDE DEF m
  <2>5. a \in LooseManager /\ b \in LooseManager
    BY <2>2 DEF LooseManager
  <2>6. SamePlaces(m, a) /\ SameQueues(m, a) /\ SamePlaces(m, b) /\ SameQueues(m, b)
    BY <2>2 DEF LooseManager, SamePlaces, SameQueues
  <2>7. /\ a.uploading_hashes = m.uploading_hashes /\ a.action_token_state = "Valid"
        /\ b.uploading_hashes = m.uploading_hashes /\ b.ticks = m.ticks
        /\ b.action_token_state = "Error" /\ b.retry_wait
    BY <2>2 DEF LooseManager
  <2>. HIDE DEF a, b
  <2>8. SamePlaces(um, a) /\ SameQueues(um, a) /\ SamePlaces(um, b) /\ SameQueues(um, b)
    BY <2>3, <2>6 DEF SamePlaces, SameQueues
  <2>9. CASE um' = Tick(a)
    BY <1>6, <2>1, <2>4, <2>5, <2>7, <2>8, <2>9 DEF RetryArmed
  <2>10. CASE um' = b
    BY <1>7, <2>1, <2>4, <2>5, <2>7, <2>8, <2>10 DEF RetryArmed, TokenAwaited
  <2>. QED  BY <2>1, <2>9, <2>10
<1>13. ASSUME NEW r \in Requests, NEW readable \in BOOLEAN, Add(r, readable)
       PROVE  WaitInv'
  <2>. DEFINE c == IF readable THEN {} ELSE {"FileError"}
              v == [up[r] EXCEPT !.state = "WaitForHashSignal", !.pending = c]
              p == [um EXCEPT !.requests = @ \cup {r}]
              n == HandleAddToHash(p, r)
  <2>1. um.alive /\ up[r].state = "Initial" /\ um' = Tick(n)
    BY <1>13 DEF Add
  <2>2. up' = [up EXCEPT ![r] = v]
    BY <1>1, <1>13 DEF Add
  <2>3. v.state = "WaitForHashSignal" /\ v.has_key = up[r].has_key
    BY <1>1 DEF Upload
  <2>. HIDE DEF v
  <2>4. KeyOK(v)
    BY <1>4, <2>1, <2>3 DEF KeyOK, Ended
  <2>5. p \in LooseManager
    BY <1>1 DEF LooseManager
  <2>6. SamePlaces(um, p) /\ SameQueues(um, p)
    BY <1>1 DEF LooseManager, SamePlaces, SameQueues
  <2>7. /\ p.alive /\ p.uploading_hashes = um.uploading_hashes
        /\ p.action_token_state = um.action_token_state /\ p.token_current = um.token_current
        /\ p.retry_wait = um.retry_wait /\ p.retry_due = um.retry_due
    BY <1>1, <2>1 DEF LooseManager
  <2>. HIDE DEF p
  <2>8. /\ n \in LooseManager /\ SamePlaces(p, n)
        /\ n.to_hash = Append(p.to_hash, r) /\ n.to_upload = p.to_upload
    BY <2>5, <2>7, AddFacts
  <2>9. /\ n.uploading_hashes = p.uploading_hashes
        /\ n.action_token_state = p.action_token_state /\ n.token_current = p.token_current
        /\ n.retry_wait = p.retry_wait /\ n.retry_due = p.retry_due
    BY <2>5, <2>7 DEF HandleAddToHash, Callback, EnqueueTick, LooseManager
  <2>. HIDE DEF n
  <2>10. RetryArmed(n)
    BY <1>4, <2>7, <2>9 DEF WakeOK, RetryArmed
  <2>11. QueueReady(n)
    <3>1. r \notin ToSet(um.to_hash) /\ r \notin um.enqueued_to_start_hashings
      BY <1>1, <2>1 DEF InvOf, PlacesOK, PlacesOf
    <3>2. um.to_hash \in Seq(Requests) /\ QueueReady(um)
      BY <1>1, <1>3, <2>1 DEF LooseManager
    <3>3. n.to_hash = Append(um.to_hash, r) /\ n.to_upload = um.to_upload
      BY <2>6, <2>8 DEF SameQueues
    <3>4. NoRepeat(n.to_hash) /\ ToSet(n.to_hash) = ToSet(um.to_hash) \cup {r}
      BY <3>1, <3>2, <3>3, AppendFacts DEF QueueReady, QueuesOK
    <3>5. n.enqueued_to_start_hashings = um.enqueued_to_start_hashings
      BY <2>6, <2>8 DEF SamePlaces
    <3>. QED  BY <2>8, <3>1, <3>2, <3>3, <3>4, <3>5 DEF QueueReady, QueuesOK
  <2>12. WakeOK(um')
    BY <2>1, <2>10, <2>11, TickWake
  <2>13. ASSUME NEW q \in Requests
         PROVE  KeyOK(up'[q]) /\ (Uploads(um, up[q], q) => Uploads(n, up'[q], q))
    <3>1. n.enqueued_to_start_uploads = um.enqueued_to_start_uploads
      BY <2>6, <2>8 DEF SamePlaces
    <3>2. CASE q = r
      <4>1. up'[q] = v
        BY <1>1, <2>2, <3>2
      <4>. QED  BY <2>1, <2>4, <3>1, <3>2, <4>1 DEF Uploads, Uploading
    <3>3. CASE q # r
      <4>1. up'[q] = up[q]
        BY <1>1, <2>2, <3>3
      <4>. QED  BY <1>4, <3>1, <4>1 DEF Uploads
    <3>. QED  BY <3>2, <3>3
  <2>14. HashesOK(n, up')
    BY <1>4, <2>7, <2>9, <2>13 DEF HashesOK
  <2>15. HashesOK(um', up')
    BY <2>1, <2>8, <2>14, TickHashes
  <2>. QED  BY <2>12, <2>13, <2>15 DEF WaitInv
<1>. QED  BY <1>5, <1>8, <1>9, <1>10, <1>11, <1>12, <1>13

\* The invariant of what waits, which is inductive with that of the places.
THEOREM WaitsInvariant == Spec => []WaitInv
<1>1. Init => WaitInv
  <2>. SUFFICES ASSUME Init  PROVE  WaitInv
    OBVIOUS
  <2>1. /\ um.to_hash = <<>> /\ um.to_upload = <<>> /\ um.uploading_hashes = {}
        /\ um.action_token_state = "Invalid"
    BY DEF Init, NewManager
  <2>2. Startable(um) = {}
    BY <2>1 DEF Startable, ToSet
  <2>3. WakeOK(um)
    BY <2>1, <2>2 DEF WakeOK, HashWaits, UploadWaits, RetryArmed
  <2>4. KeyOK(NewUpload)
    BY DEF KeyOK, NewUpload
  <2>5. \A r \in Requests : KeyOK(up[r])
    BY <2>4 DEF Init
  <2>. QED  BY <2>1, <2>3, <2>5 DEF WaitInv, HashesOK
<1>2. ASSUME IInv, IInv', WaitInv, [Next]_vars  PROVE  WaitInv'
  <2>1. CASE UNCHANGED vars
    <3>1. um' = um /\ up' = up
      BY <2>1 DEF vars
    <3>2. WakeOK(um') /\ HashesOK(um', up') /\ \A r \in Requests : KeyOK(up'[r])
      BY <1>2, <3>1 DEF WaitInv
    <3>. QED  BY <3>2 DEF WaitInv
  <2>2. CASE Next
    <3>1. ASSUME NEW r \in Requests, Moved(r)  PROVE  WaitInv'
      BY <1>2, <3>1, MovedKeeps
    <3>. QED  BY <1>2, <2>2, <3>1, HandlersMove, ManagerWaits DEF Next
  <2>. QED  BY <1>2, <2>1, <2>2
<1>. QED  BY <1>1, <1>2, PlacesInvariant, PTL DEF Spec

\* For any number of uploads and any limits, an upload that could be hashed or
\* uploaded now is not forgotten: a Tick, a start event, a call for the token
\* or the retry timer that leads to one is pending (EnqueueTick,
\* Tick_StartUploads, HandleActionToken, ActionTokenRetry).
THEOREM NoTickForgotten == Spec => []NoLostTick
<1>1. WaitInv => NoLostTick
  BY DEF WaitInv, WakeOK, HashWaits, UploadWaits, TokenAwaited, NoLostTick
<1>. QED  BY <1>1, WaitsInvariant, PTL

\* For any number of uploads, whatever they share and however they end,
\* uploading_hashes_ holds no hash that nobody uploads (HandleComplete).
THEOREM NoHashKept == Spec => []NoHashLeak
<1>1. WaitInv => NoHashLeak
  BY DEF WaitInv, HashesOK, Uploads, NoHashLeak
<1>. QED  BY <1>1, WaitsInvariant, PTL

\* For any number of chunks, a resumable upload is polled only when the server
\* has every one (DoChunkUpload and the entry of UploadChunk).
THEOREM PolledOnlyWhole == Spec => []PolledWhole
<1>1. WaitInv => PolledWhole
  BY DEF WaitInv, KeyOK, PolledWhole
<1>. QED  BY <1>1, WaitsInvariant, PTL

=============================================================================
